---------------------------- MODULE Spec2Model ----------------------------
(***************************************************************************)
(* A model of the FRAD unified driver (frad_appV6.py): the staged scan     *)
(* pipeline run_pipeline with its CLI stage wrappers, the profile lookup,  *)
(* the inline normalizer fallback, the scorer retry and the profile        *)
(* threshold override.                                                     *)
(*                                                                         *)
(* Numbers are fixed point, in hundredths: 100 is 1.0, 90 is 0.9.          *)
(* A child process is modelled by what the driver can observe of it: its   *)
(* exit (ok / nonzero / timeout where the driver sets one) and the state   *)
(* of the file it was asked to write.  OS-level write errors of the        *)
(* driver's own in-process writes are outside the model.                   *)
(*                                                                         *)
(* Beside the pipeline (Spec, SpecLive) the module holds the programs the  *)
(* stages run, each under a specification of its own: the threshold        *)
(* override (SpecOverride), the decision rules (SpecDecision), the         *)
(* threshold search (SpecTune), the stored documents and their writers     *)
(* (SpecStore), the channel normalizers (SpecSignal), the index            *)
(* computation (SpecIndex), the two calibration routines (SpecCalib) and   *)
(* the push button handler (SpecButton).                                   *)
(***************************************************************************)
EXTENDS Integers, Sequences, FiniteSets, TLC

VARIABLES
    pc,            \* position of run_pipeline ("Waiting": inside a child call)
    hist,          \* stages started so far, in order
    errKind,       \* which except-branch ended the run: "none" | "timeout" | "error"
    failedAt,      \* stage in which the run failed, "" if none
    forceFruit,    \* env FRAD_FORCE_FRUIT ("<unset>" when not set)
    PROFILES,      \* profiles.json as loaded at import
    displayReal,   \* TRUE: EInkDisplay, FALSE: _NoopDisplay
    displayErrs,   \* display calls that raised during this run
    blocked,       \* the child call the run waits on without a timeout, "" if none
    calExists,     \* whether the profile's calibration file exists
    captures,      \* capture invocations: <<[path, rc, args]>>
    images,        \* image files present on disk
    jpgPath,       \* jpg_path
    fruitMeta,     \* fruit_id.classify result (the "fruit" field)
    fruitType,     \* fruit_type
    profile,       \* resolved profile
    thresholds,    \* profile["indices"]["ripe_if"]
    raw, norm, cal, idx,   \* stage artifacts
    idxRow,        \* last data row of the index CSV
    normOutcome,   \* exit of the external normalizer
    fallbackCalls, \* invocations of _normalize_inline
    scoreCalls,    \* scorer invocations: <<[mode, rc]>>
    scoreFile,     \* score JSON on disk
    scoreDoc,      \* its content when valid
    summary,       \* summary
    resultFile,    \* "absent" | "complete"
    resultWrites,  \* number of writes of the result document
    resultDoc,     \* the PipelineResult written
    autotuneEnv,   \* env FRAD_AUTOTUNE
    diskProfiles,  \* profiles.json on disk
    diskExists,    \* whether profiles.json exists
    bakProfiles,   \* profiles.bak ("none" record when absent)
    autotuneRes,   \* outcome of the Autotune step
    featureRow,    \* a feature row given to the decision rules
    decisionCfg,   \* decision config: [rules, fallback]
    liveOut,       \* what eval_rules_verbose returned (live scoring)
    evalOut,       \* what classify_row returned (accuracy evaluator)
    freshRows,     \* rows read from the fresh CSVs (should classify "ripe")
    badRows,       \* rows read from the bad CSVs (should classify "unripe")
    useNir,        \* --use-nir
    tuneOut,       \* what the threshold search ended with
    files,         \* the documents on disk: file name -> [exists, ver, len]
    savePc,        \* position of _save_profiles_safe
    persistPc,     \* position of the --write-cal block of evaluator_autotune.py
    written,       \* documents written so far, per file
    reads,         \* what a concurrent reader saw: {[file, ver, len]}
    replaced,      \* complete documents that were overwritten: {[file, ver]}
    reading,       \* one row of channel readings: column -> cell
    normRow,       \* the row _normalize_inline makes of it, before smoothing
    liveNorm,      \* the values as7341_norm.py makes of it, before smoothing
    csvHeader,     \* the header of the readings CSV given to ripeness_index_run.py
    csvRows,       \* its data rows
    indexRun,      \* how run_csv_mode ended and the row it appended
    calRow,        \* a row of channel values given to the calibration
    calCfg,        \* the calibration profile: channel -> {offset, scale}
    stageCal,      \* the row calibrate_index.py writes (the Calibrate stage)
    liveCal,       \* the row apply_offsets_scales returns (the live index runner)
    press_count,   \* ButtonHandler.press_count
    sincePress,    \* time.time() - last_press_time in ticks of 0.2 s, up to the window
    pressing,      \* where the _pressed callback stands
    evaluators,    \* the evaluate threads started so far
    handled,       \* how often each handler was called
    pressLog       \* the presses so far: tap or hold, and the time since the tap before

vars == << pc, hist, errKind, failedAt, forceFruit, PROFILES, displayReal,
           displayErrs, blocked,
           calExists, captures, images, jpgPath, fruitMeta,
           fruitType, profile, thresholds, raw, norm, cal, idx, idxRow,
           normOutcome, fallbackCalls, scoreCalls, scoreFile, scoreDoc,
           summary, resultFile, resultWrites, resultDoc, autotuneEnv,
           diskProfiles, diskExists, bakProfiles, autotuneRes,
           featureRow, decisionCfg, liveOut, evalOut,
           freshRows, badRows, useNir, tuneOut,
           files, savePc, persistPc, written, reads, replaced,
           reading, normRow, liveNorm,
           csvHeader, csvRows, indexRun,
           calRow, calCfg, stageCal, liveCal,
           press_count, sincePress, pressing, evaluators, handled, pressLog >>

---------------------------------------------------------------------------
(* Bounds of the model *)

\* feature values and thresholds range over 0 .. MaxVal (units of 1.0)
MaxVal == 2
\* at most MaxOps operators in one override condition
MaxOps == 2

---------------------------------------------------------------------------
(* Program constants *)

\* "confidence": None
NoneConf == -1
\* max(0.9, ...)
ConfFloor == 90
\* one unit (1.0) in hundredths
Unit == 100

---------------------------------------------------------------------------
(* Small helpers *)

Max(a, b) == IF a >= b THEN a ELSE b

RECURSIVE Dedup(_, _)
\* de-dup while preserving order
Dedup(s, seen) ==
    IF s = <<>> THEN <<>>
    ELSE IF Head(s) \in seen THEN Dedup(Tail(s), seen)
         ELSE <<Head(s)>> \o Dedup(Tail(s), seen \cup {Head(s)})


---------------------------------------------------------------------------
(* Fruit names and profiles *)

Unset == "<unset>"

\* (name or "").lower().replace("_", " ").strip(), on the names of the model
_canon_name(name) ==
    CASE name = "Apple"       -> "apple"
      [] name = "green_apple" -> "green apple"
      [] name = " banana "    -> "banana"
      [] OTHER                -> name

\* the {} profile
EmptyProfile == [name |-> "", cam |-> FALSE, ripe_if |-> <<>>]

\* a profile is truthy iff it is a non-empty dict
Truthy(p) == p # EmptyProfile

\* PROFILES.get(fruit) or PROFILES.get("unknown", {})
load_profile(store, fruit) ==
    LET first == IF fruit \in DOMAIN store THEN store[fruit] ELSE EmptyProfile
    IN  IF Truthy(first) THEN first
        ELSE IF "unknown" \in DOMAIN store THEN store["unknown"] ELSE EmptyProfile

_profile_candidates_for_fruit(fruit) ==
    LET c == _canon_name(fruit)
        candidates == <<fruit>>
                      \o (IF c = "apple" THEN <<"green apple">> ELSE <<>>)
                      \o (IF c = "green apple" THEN <<"apple">> ELSE <<>>)
                      \o <<"unknown">>
    IN  Dedup(candidates, {})

RECURSIVE FirstTruthy(_, _)
\* for key in candidates: prof = load_profile(key); if prof: profile = prof; break
FirstTruthy(store, keys) ==
    IF keys = <<>> THEN EmptyProfile
    ELSE LET prof == load_profile(store, Head(keys))
         IN  IF Truthy(prof) THEN prof ELSE FirstTruthy(store, Tail(keys))

ResolveProfileFor(store, fruit) ==
    FirstTruthy(store, _profile_candidates_for_fruit(fruit))

\* fruit_id.classify: the stub looks at the file name only
classify(imageName) ==
    CASE imageName = "banana"  -> "banana"
      [] imageName = "mango"   -> "mango"
      [] imageName = "avocado" -> "avocado"
      [] OTHER                 -> "unknown"

\* the file names run_pipeline builds: raw_<ts>.jpg and raw_<ts>_prof.jpg
ImageNameOf(path) == IF path = "raw_prof.jpg" THEN "raw_prof" ELSE "raw"

---------------------------------------------------------------------------
(* Index rows and the threshold override *)

Num(n) == [t |-> "num", v |-> n]
Txt    == [t |-> "txt", v |-> 0]

\* float(v), 0.0 when v is not a number
_to_float_safe(cell) == IF cell.t = "num" THEN cell.v ELSE 0

KnownOps == {">=", "<=", ">", "<", "=="}

OpHolds(op, a, b) ==
    CASE op = ">=" -> a >= b
      [] op = "<=" -> a <= b
      [] op = ">"  -> a > b
      [] op = "<"  -> a < b
      [] op = "==" -> a = b
      [] OTHER     -> FALSE

\* features = {k: _to_float_safe(v)} plus the friendly aliases
FeaturesOf(row) ==
    LET base == [k \in DOMAIN row |-> _to_float_safe(row[k])]
        withNir == IF "nir/red" \in DOMAIN base /\ "nir_red_ratio" \notin DOMAIN base
                   THEN [k \in DOMAIN base \cup {"nir_red_ratio"} |->
                           IF k = "nir_red_ratio" THEN base["nir/red"] ELSE base[k]]
                   ELSE base
    IN  IF "ripe_index" \in DOMAIN withNir /\ "ri" \notin DOMAIN withNir
        THEN [k \in DOMAIN withNir \cup {"ri"} |->
                IF k = "ri" THEN withNir["ripe_index"] ELSE withNir[k]]
        ELSE withNir

RECURSIVE OverrideLoop(_, _)
\* the for-loop over thresholds.items(): TRUE when it runs to its end,
\* FALSE when it returns current_summary early
OverrideLoop(features, conds) ==
    IF conds = <<>> THEN TRUE
    ELSE LET e == Head(conds)
         IN  IF e.kind # "dict" \/ e.ops = <<>>
             THEN OverrideLoop(features, Tail(conds))
             ELSE LET op  == e.ops[1].op
                      thr == e.ops[1].thr
                  IN  IF op \notin KnownOps THEN FALSE
                      ELSE IF e.feat \notin DOMAIN features THEN FALSE
                      ELSE IF ~OpHolds(op, features[e.feat], thr) THEN FALSE
                      ELSE OverrideLoop(features, Tail(conds))

\* mutant: the confidence is set to the floor instead of raised to it
ForcedSummary_SetsFloor(cur) ==
    [cur EXCEPT !.label = "ripe",
                !.confidence = ConfFloor,
                !.override = "profiles.indices.ripe_if"]

\* new_summary of _apply_threshold_overrides
ForcedSummary(cur) ==
    [cur EXCEPT !.label = "ripe",
                !.confidence = Max(ConfFloor,
                                   IF cur.confidence = NoneConf THEN 0 ELSE cur.confidence),
                !.override = "profiles.indices.ripe_if"]

\* _apply_threshold_overrides(index_csv, thresholds, current_summary):
\* hasRow is FALSE when the index CSV has no data row (_read_last_row_csv raises)
_apply_threshold_overrides(hasRow, row, conds, cur) ==
    IF conds = <<>> THEN [raised |-> FALSE, summary |-> cur]
    ELSE IF ~hasRow THEN [raised |-> TRUE, summary |-> cur]
    ELSE IF OverrideLoop(FeaturesOf(row), conds)
         THEN [raised |-> FALSE, summary |-> ForcedSummary(cur)]
         ELSE [raised |-> FALSE, summary |-> cur]

\* summary = {"label": "unknown", "confidence": None, "source": str(inp)}
DefaultSummary ==
    [label |-> "unknown", confidence |-> NoneConf, override |-> "", source |-> "index.csv"]

---------------------------------------------------------------------------
(* The in-run autotune: _maybe_autotune_thresholds and _save_profiles_safe *)

Op(o, t) == [op |-> o, thr |-> t]
Cond(f, ops) == [feat |-> f, kind |-> "dict", ops |-> ops]

RECURSIVE SetCond(_, _, _)
\* ripe_if[feature] = {op: tuned}: replaces the entry in place, else appends it
SetCond(conds, f, c) ==
    IF conds = <<>> THEN <<c>>
    ELSE IF Head(conds).feat = f THEN <<c>> \o Tail(conds)
         ELSE <<Head(conds)>> \o SetCond(Tail(conds), f, c)

AppleLike == {"apple", "green apple", "red apple"}

NoBackup == [exists |-> FALSE, store |-> <<>>]

\* _save_profiles_safe: copy the present file to .bak, write .tmp, os.replace
_save_profiles_safe(new, disk, exists, bak) ==
    [disk |-> new, exists |-> TRUE,
     bak |-> IF exists THEN [exists |-> TRUE, store |-> disk] ELSE bak]

\* _maybe_autotune_thresholds(fruit, index_csv)
_maybe_autotune_thresholds(env, fruit, hasRow, row, disk, exists, bak) ==
    LET same == [raised |-> FALSE, saved |-> FALSE,
                 disk |-> disk, exists |-> exists, bak |-> bak]
        cf == _canon_name(fruit)
        ct == _canon_name(env.fruit)
        last == IF env.feature = "nir_red_ratio" /\ "nir/red" \in DOMAIN row
                   /\ "nir_red_ratio" \notin DOMAIN row
                THEN [k \in DOMAIN row \cup {"nir_red_ratio"} |->
                        IF k = "nir_red_ratio" THEN row["nir/red"] ELSE row[k]]
                ELSE row
        val == _to_float_safe(last[env.feature])
        tuned == IF env.op = ">=" THEN (val * env.margin) \div Unit
                 ELSE (val * Unit) \div Max(1, env.margin)
        profs == IF exists THEN disk ELSE <<>>
        write_key == IF fruit \notin DOMAIN profs /\ cf = "green apple"
                        /\ "apple" \in DOMAIN profs
                     THEN "apple" ELSE fruit
        old == IF write_key \in DOMAIN profs /\ Truthy(profs[write_key])
               THEN profs[write_key]
               ELSE [name |-> write_key, cam |-> FALSE, ripe_if |-> <<>>]
        fruit_prof == [old EXCEPT !.ripe_if =
                          SetCond(old.ripe_if, env.feature,
                                  Cond(env.feature, <<Op(env.op, tuned)>>))]
        newProfs == [k \in DOMAIN profs \cup {write_key} |->
                        IF k = write_key THEN fruit_prof ELSE profs[k]]
        w == _save_profiles_safe(newProfs, disk, exists, bak)
    IN  IF env.kind # "ok" THEN same
        ELSE IF ~(cf = ct \/ (cf \in AppleLike /\ ct \in AppleLike)) THEN same
        ELSE IF ~hasRow THEN [same EXCEPT !.raised = TRUE]
        ELSE IF env.feature \notin DOMAIN last THEN same
        ELSE IF env.op \notin {">=", "<="} THEN same
        ELSE [raised |-> FALSE, saved |-> TRUE,
              disk |-> w.disk, exists |-> w.exists, bak |-> w.bak]

---------------------------------------------------------------------------
(* Inputs of a run *)

ProfU == [name |-> "unknown", cam |-> FALSE, ripe_if |-> <<>>]
ProfA == [name |-> "apple", cam |-> TRUE,
          ripe_if |-> << Cond("ri", <<Op(">=", Unit)>>) >>]
ProfG == [name |-> "green apple", cam |-> TRUE,
          ripe_if |-> << Cond("ri", <<Op(">=", Unit)>>),
                         Cond("nir_red_ratio", <<Op("<=", MaxVal * Unit)>>) >>]
ProfB == [name |-> "banana", cam |-> FALSE,
          ripe_if |-> << Cond("ri", <<Op(">=", Unit), Op("<=", 0)>>) >>]

\* the profiles.json documents of the model
Stores ==
    { <<>>,
      ("unknown" :> ProfU),
      ("apple" :> ProfA) @@ ("unknown" :> ProfU),
      ("green apple" :> ProfG) @@ ("unknown" :> ProfU),
      ("banana" :> ProfB) }

ForceValues == {Unset, "apple", "green apple", "banana"}

NoAutotune == [kind |-> "unset", fruit |-> "", feature |-> "", op |-> "", margin |-> 0]
AutotuneEnvs ==
    { NoAutotune,
      [kind |-> "malformed", fruit |-> "", feature |-> "", op |-> "", margin |-> 0],
      [kind |-> "ok", fruit |-> "apple", feature |-> "ri", op |-> ">=", margin |-> 50],
      [kind |-> "ok", fruit |-> "banana", feature |-> "ri", op |-> ">", margin |-> Unit] }

NoRow == <<>>
\* last rows of the index CSV
PipelineRows ==
    { ("ri" :> Num(MaxVal * Unit)),
      ("ri" :> Num(0)),
      ("r_over_g" :> Num(Unit)) }

\* what ripeness_score.py can have written
ScoreDocs ==
    { [label |-> "ripe", confidence |-> 95, override |-> "", source |-> ""],
      [label |-> "unripe", confidence |-> 60, override |-> "", source |-> ""] }

Exits == {"ok", "nonzero", "timeout"}
FileStates == {"missing", "empty", "rows"}
NonEmpty(f) == f \in {"header", "rows"}

Stages == << "Capture", "Classify", "ResolveProfile", "Recapture", "Acquire",
             "Normalize", "Calibrate", "Index", "Autotune", "Score", "Override",
             "Persist" >>

NoDoc == [image |-> "", fruitUsed |-> "", detected |-> "", profile |-> "",
          summary |-> DefaultSummary]

\* the programs beside the pipeline, not started
StoreIdle ==
    /\ files = <<>>
    /\ savePc = "off"
    /\ persistPc = "off"
    /\ written = <<>>
    /\ reads = {}
    /\ replaced = {}

SignalIdle ==
    /\ reading = <<>>
    /\ normRow = [done |-> FALSE, cells |-> <<>>]
    /\ liveNorm = [done |-> FALSE, cells |-> <<>>]

IndexIdle ==
    /\ csvHeader = {}
    /\ csvRows = <<>>
    /\ indexRun = [status |-> "none", cols |-> <<>>, ratios |-> <<>>, label |-> ""]

CalibIdle ==
    /\ calRow = <<>>
    /\ calCfg = <<>>
    /\ stageCal = [done |-> FALSE, row |-> <<>>]
    /\ liveCal = [done |-> FALSE, row |-> <<>>]

ButtonIdle ==
    /\ press_count = 0
    /\ sincePress = 0
    /\ pressing = [pc |-> "off", held |-> 0, since |-> 0, seen |-> 0]
    /\ evaluators = <<>>
    /\ handled = [scan |-> 0, reset |-> 0, shutdown |-> 0]
    /\ pressLog = <<>>

BenchIdle ==
    /\ StoreIdle
    /\ SignalIdle
    /\ IndexIdle
    /\ CalibIdle
    /\ ButtonIdle

Init ==
    /\ pc = "Init"
    /\ hist = <<>>
    /\ errKind = "none"
    /\ failedAt = ""
    /\ forceFruit \in ForceValues
    /\ PROFILES \in Stores
    /\ displayReal \in BOOLEAN
    /\ displayErrs = {}
    /\ blocked = ""
    /\ calExists = TRUE
    /\ captures = <<>>
    /\ images = {}
    /\ jpgPath = ""
    /\ fruitMeta = ""
    /\ fruitType = ""
    /\ profile = EmptyProfile
    /\ thresholds = <<>>
    /\ raw = "missing" /\ norm = "missing" /\ cal = "missing" /\ idx = "missing"
    /\ idxRow = NoRow
    /\ normOutcome = "none"
    /\ fallbackCalls = 0
    /\ scoreCalls = <<>>
    /\ scoreFile = "missing"
    /\ scoreDoc = DefaultSummary
    /\ summary = DefaultSummary
    /\ resultFile = "absent"
    /\ resultWrites = 0
    /\ resultDoc = NoDoc
    /\ autotuneEnv \in AutotuneEnvs
    /\ diskProfiles = PROFILES
    /\ diskExists = (PROFILES # <<>>)
    /\ bakProfiles = NoBackup
    /\ autotuneRes = "none"
    /\ featureRow = <<>>
    /\ decisionCfg = [rules |-> <<>>, fallback |-> ""]
    /\ liveOut = [done |-> FALSE, raised |-> FALSE, label |-> "", votes |-> <<>>]
    /\ evalOut = [done |-> FALSE, raised |-> FALSE, label |-> "", votes |-> <<>>]
    /\ freshRows = <<>>
    /\ badRows = <<>>
    /\ useNir = FALSE
    /\ tuneOut = [status |-> "none", combos |-> 0, thr |-> <<>>, acc |-> 0, n |-> 0, fp |-> 0]
    /\ BenchIdle

---------------------------------------------------------------------------
(* run_pipeline, one action per stage *)

offlineVars == << featureRow, decisionCfg, liveOut, evalOut >>
searchVars == << freshRows, badRows, useNir, tuneOut >>
storeVars == << files, savePc, persistPc, written, reads, replaced >>
signalVars == << reading, normRow, liveNorm >>
indexVars == << csvHeader, csvRows, indexRun >>
calibVars == << calRow, calCfg, stageCal, liveCal >>
buttonVars == << press_count, sincePress, pressing, evaluators, handled, pressLog >>
benchVars == << storeVars, signalVars, indexVars, calibVars, buttonVars >>
inputVars  == << forceFruit, PROFILES, displayReal, autotuneEnv >>
imageVars  == << captures, images, jpgPath >>
fruitVars  == << fruitMeta, fruitType, profile >>
fileVars   == << raw, norm, cal, idx, idxRow >>
normVars   == << normOutcome, fallbackCalls >>
scoreVars  == << scoreCalls, scoreFile, scoreDoc, summary >>
resultVars == << resultFile, resultWrites, resultDoc >>
tuneVars   == << diskProfiles, diskExists, bakProfiles, autotuneRes >>

\* mutant: Calibrate is skipped after Normalize
NextStage_SkipsCalibrate(stage) ==
    CASE stage = "Init"           -> "Capture"
      [] stage = "Capture"        -> "Classify"
      [] stage = "Classify"       -> "ResolveProfile"
      [] stage = "ResolveProfile" -> "Acquire"
      [] stage = "Recapture"      -> "Acquire"
      [] stage = "Acquire"        -> "Normalize"
      [] stage = "Normalize"      -> "Index"
      [] stage = "Calibrate"      -> "Index"
      [] stage = "Index"          -> "Autotune"
      [] stage = "Autotune"       -> "Score"
      [] stage = "Score"          -> "Override"
      [] stage = "Override"       -> "Persist"
      [] stage = "Persist"        -> "Done"
      [] OTHER                    -> stage

\* the stage entered after `stage` ends normally
NextStage(stage) ==
    CASE stage = "Init"           -> "Capture"
      [] stage = "Capture"        -> "Classify"
      [] stage = "Classify"       -> "ResolveProfile"
      [] stage = "ResolveProfile" -> "Acquire"
      [] stage = "Recapture"      -> "Acquire"
      [] stage = "Acquire"        -> "Normalize"
      [] stage = "Normalize"      -> "Calibrate"
      [] stage = "Calibrate"      -> "Index"
      [] stage = "Index"          -> "Autotune"
      [] stage = "Autotune"       -> "Score"
      [] stage = "Score"          -> "Override"
      [] stage = "Override"       -> "Persist"
      [] stage = "Persist"        -> "Done"
      [] OTHER                    -> stage

\* the except-branches of run_pipeline: show a message, re-raise
Fail(stage, kind) ==
    /\ pc' = "Failed"
    /\ errKind' = kind
    /\ failedAt' = stage

Proceed(stage) ==
    /\ pc' = NextStage(stage)
    /\ UNCHANGED << errKind, failedAt >>

\* display.show_step(...) is called outside any try of its own
ShowStepRaises == IF displayReal THEN BOOLEAN ELSE {FALSE}

\* try: display.<call>() except Exception: pass -- the calls of `calls` that
\* raise are swallowed; _NoopDisplay only prints
SwallowedRaises(calls) == IF displayReal THEN SUBSET calls ELSE {{}}

\* display.show_step raised: the exception leaves the try block of run_pipeline
ShowStepAborts(stage) ==
    /\ Fail(stage, "error")
    /\ displayErrs' = displayErrs \cup {"show_step"}
    /\ UNCHANGED blocked

\* subprocess.run(cmd) without timeout on a child that never exits
WaitForever(call) ==
    /\ pc' = "Waiting"
    /\ blocked' = call
    /\ UNCHANGED << errKind, failedAt, displayErrs >>

dispVars == << displayErrs, blocked >>

\* the exception a child's exit raises in _run
ExitError(exit) == IF exit = "timeout" THEN "timeout" ELSE "error"

Start ==
    /\ pc = "Init"
    /\ \E sw \in SwallowedRaises({"show_scanning"}) :
         displayErrs' = displayErrs \cup sw
    /\ Proceed("Init")
    /\ UNCHANGED << blocked, hist, inputVars, offlineVars, searchVars, benchVars, calExists, imageVars, fruitVars, thresholds,
                    fileVars, normVars, scoreVars, resultVars, tuneVars >>

\* mutant: the capture child is run with check=True
cli_capture_jpeg_Checked(stage, path, rc, withArgs) ==
    /\ captures' = Append(captures, [path |-> path, rc |-> rc, args |-> withArgs])
    /\ images' = IF rc = 0 THEN images \cup {path} ELSE images
    /\ jpgPath' = path
    /\ IF rc = 0 THEN Proceed(stage) ELSE Fail(stage, "error")

\* cli_capture_jpeg(out_path, extra_args) called in `stage`: a nonzero exit
\* code is logged and dropped, and the path is returned either way
cli_capture_jpeg(stage, path, rc, withArgs) ==
    /\ captures' = Append(captures, [path |-> path, rc |-> rc, args |-> withArgs])
    /\ images' = IF rc = 0 THEN images \cup {path} ELSE images
    /\ jpgPath' = path
    /\ Proceed(stage)

CaptureStep ==
    /\ pc = "Capture"
    /\ hist' = Append(hist, "Capture")
    /\ \E dr \in ShowStepRaises :
         IF dr
         THEN /\ ShowStepAborts("Capture")
              /\ UNCHANGED imageVars
         ELSE \/ \E rc \in {0, 1} :
                   /\ cli_capture_jpeg("Capture", "raw.jpg", rc, FALSE)
                   /\ UNCHANGED dispVars
              \/ /\ WaitForever("capture")
                 /\ jpgPath' = "raw.jpg"
                 /\ UNCHANGED << captures, images >>
    /\ UNCHANGED << inputVars, offlineVars, searchVars, benchVars, calExists, fruitVars, thresholds, fileVars,
                    normVars, scoreVars, resultVars, tuneVars >>

\* mutant: the FRAD_FORCE_FRUIT override is not applied
FruitUsed_IgnoresForce(meta, force) == meta

\* fruit_type = os.environ.get("FRAD_FORCE_FRUIT", fruit_meta.get("fruit", "unknown"))
FruitUsed(meta, force) == IF force # Unset THEN force ELSE meta

ClassifyStep ==
    /\ pc = "Classify"
    /\ hist' = Append(hist, "Classify")
    /\ fruitMeta' = classify(ImageNameOf(jpgPath))
    /\ fruitType' = FruitUsed(fruitMeta', forceFruit)
    /\ \E sw \in SwallowedRaises({"show_message"}) :
         displayErrs' = displayErrs \cup sw
    /\ Proceed("Classify")
    /\ UNCHANGED blocked
    /\ UNCHANGED << inputVars, offlineVars, searchVars, benchVars, calExists, imageVars, profile, thresholds, fileVars,
                    normVars, scoreVars, resultVars, tuneVars >>

\* mutant: the recapture does not look at the profile
NeedsRecapture_Always(p) == TRUE

\* profile.get("camera_args") or profile.get("camera", {}).get("args", [])
NeedsRecapture(p) == p.cam

ResolveProfileStep ==
    /\ pc = "ResolveProfile"
    /\ hist' = Append(hist, "ResolveProfile")
    /\ profile' = ResolveProfileFor(PROFILES, fruitType)
    /\ pc' = IF NeedsRecapture(profile') THEN "Recapture" ELSE NextStage("ResolveProfile")
    /\ UNCHANGED << errKind, failedAt, dispVars, inputVars, offlineVars, searchVars, benchVars, calExists, imageVars, fruitMeta,
                    fruitType, thresholds, fileVars, normVars, scoreVars,
                    resultVars, tuneVars >>

RecaptureStep ==
    /\ pc = "Recapture"
    /\ hist' = Append(hist, "Recapture")
    /\ \/ \E rc \in {0, 1} :
            /\ cli_capture_jpeg("Recapture", "raw_prof.jpg", rc, TRUE)
            /\ UNCHANGED dispVars
       \/ /\ WaitForever("capture")
          /\ jpgPath' = "raw_prof.jpg"
          /\ UNCHANGED << captures, images >>
    /\ UNCHANGED << inputVars, offlineVars, searchVars, benchVars, calExists, fruitVars, thresholds, fileVars,
                    normVars, scoreVars, resultVars, tuneVars >>

\* _run(cmd, timeout) followed by _assert_nonempty_file(out): TRUE when both pass
StageOk(exit, file) == exit = "ok" /\ NonEmpty(file)

\* what ends a stage whose child exited with `exit` leaving `file`
StageEnd(stage, exit, file) ==
    IF StageOk(exit, file) THEN Proceed(stage) ELSE Fail(stage, ExitError(exit))

AcquireStep ==
    /\ pc = "Acquire"
    /\ hist' = Append(hist, "Acquire")
    /\ thresholds' = profile.ripe_if
    /\ \E dr \in ShowStepRaises :
         IF dr
         THEN /\ ShowStepAborts("Acquire")
              /\ UNCHANGED raw
         ELSE \E exit \in Exits, f \in FileStates \cup {"header"} :
                /\ raw' = f
                /\ StageEnd("Acquire", exit, f)
                /\ UNCHANGED dispVars
    /\ UNCHANGED << inputVars, offlineVars, searchVars, benchVars, calExists, imageVars, fruitVars, norm, cal, idx,
                    idxRow, normVars, scoreVars, resultVars, tuneVars >>

\* _normalize_inline(inp, out): raises on an input without data rows,
\* else writes the header and one row per input row
InlineRaises(inp) == inp # "rows"

\* mutant: except Exception instead of except TimeoutExpired
cli_normalize_FallbackOnAnyFailure(exit, f) ==
    /\ normOutcome' = exit
    /\ IF ~StageOk(exit, f)
       THEN /\ fallbackCalls' = fallbackCalls + 1
            /\ IF InlineRaises(raw)
               THEN /\ norm' = f
                    /\ Fail("Normalize", "error")
               ELSE /\ norm' = "rows"
                    /\ Proceed("Normalize")
       ELSE /\ UNCHANGED fallbackCalls
            /\ norm' = f
            /\ Proceed("Normalize")

\* cli_normalize(inp, out)
cli_normalize(exit, f) ==
    /\ normOutcome' = exit
    /\ IF exit = "timeout"
       THEN /\ fallbackCalls' = fallbackCalls + 1
            /\ IF InlineRaises(raw)
               THEN /\ norm' = f
                    /\ Fail("Normalize", "error")
               ELSE /\ norm' = "rows"
                    /\ Proceed("Normalize")
       ELSE /\ UNCHANGED fallbackCalls
            /\ norm' = f
            /\ StageEnd("Normalize", exit, f)

NormalizeStep ==
    /\ pc = "Normalize"
    /\ hist' = Append(hist, "Normalize")
    /\ \E dr \in ShowStepRaises :
         IF dr
         THEN /\ ShowStepAborts("Normalize")
              /\ UNCHANGED << norm, normVars >>
         ELSE IF ~NonEmpty(raw)
         THEN /\ Fail("Normalize", "error")
              /\ UNCHANGED << norm, normVars, dispVars >>
         ELSE /\ \E exit \in Exits, f \in FileStates : cli_normalize(exit, f)
              /\ UNCHANGED dispVars
    /\ UNCHANGED << inputVars, offlineVars, searchVars, benchVars, calExists, imageVars, fruitVars, thresholds, raw,
                    cal, idx, idxRow, scoreVars, resultVars, tuneVars >>

CalibrateStep ==
    /\ pc = "Calibrate"
    /\ hist' = Append(hist, "Calibrate")
    /\ \E dr \in ShowStepRaises :
         IF dr
         THEN /\ ShowStepAborts("Calibrate")
              /\ UNCHANGED << cal, calExists >>
         ELSE IF ~NonEmpty(norm)
         THEN /\ Fail("Calibrate", "error")
              /\ UNCHANGED << cal, calExists, dispVars >>
         ELSE \E ce \in BOOLEAN :
                /\ calExists' = ce
                /\ UNCHANGED dispVars
                /\ IF ~ce
                   THEN /\ Fail("Calibrate", "error")
                        /\ UNCHANGED cal
                   ELSE \E exit \in Exits, f \in FileStates :
                          /\ cal' = f
                          /\ StageEnd("Calibrate", exit, f)
    /\ UNCHANGED << inputVars, offlineVars, searchVars, benchVars, imageVars, fruitVars, thresholds, raw, norm, idx,
                    idxRow, normVars, scoreVars, resultVars, tuneVars >>

IndexStep ==
    /\ pc = "Index"
    /\ hist' = Append(hist, "Index")
    /\ \E dr \in ShowStepRaises :
         IF dr
         THEN /\ ShowStepAborts("Index")
              /\ UNCHANGED << idx, idxRow >>
         ELSE IF ~NonEmpty(cal)
         THEN /\ Fail("Index", "error")
              /\ UNCHANGED << idx, idxRow, dispVars >>
         ELSE \E exit \in Exits, f \in FileStates \cup {"header"} :
                /\ UNCHANGED dispVars
                /\ idx' = f
                /\ \E row \in (IF f = "rows" THEN PipelineRows ELSE {NoRow}) :
                     idxRow' = row
                /\ StageEnd("Index", exit, f)
    /\ UNCHANGED << inputVars, offlineVars, searchVars, benchVars, calExists, imageVars, fruitVars, thresholds, raw,
                    norm, cal, normVars, scoreVars, resultVars, tuneVars >>

\* mutant: the run re-reads the override map from the store autotune wrote
AutotuneStep_ReloadsThresholds ==
    /\ pc = "Autotune"
    /\ hist' = Append(hist, "Autotune")
    /\ LET r == _maybe_autotune_thresholds(autotuneEnv, fruitType, idx = "rows",
                                           idxRow, diskProfiles, diskExists,
                                           bakProfiles)
       IN  /\ diskProfiles' = r.disk
           /\ diskExists' = r.exists
           /\ bakProfiles' = r.bak
           /\ autotuneRes' = IF r.raised THEN "raised"
                             ELSE IF r.saved THEN "saved" ELSE "skipped"
           /\ thresholds' = IF r.saved
                             THEN ResolveProfileFor(r.disk, fruitType).ripe_if
                             ELSE thresholds
    /\ Proceed("Autotune")
    /\ UNCHANGED << dispVars, inputVars, offlineVars, searchVars, benchVars, calExists, imageVars, fruitVars,
                    fileVars, normVars, scoreVars, resultVars >>

\* try: _maybe_autotune_thresholds(fruit_type, idx_path) except: warn
AutotuneStep ==
    /\ pc = "Autotune"
    /\ hist' = Append(hist, "Autotune")
    /\ LET r == _maybe_autotune_thresholds(autotuneEnv, fruitType, idx = "rows",
                                           idxRow, diskProfiles, diskExists,
                                           bakProfiles)
       IN  /\ diskProfiles' = r.disk
           /\ diskExists' = r.exists
           /\ bakProfiles' = r.bak
           /\ autotuneRes' = IF r.raised THEN "raised"
                             ELSE IF r.saved THEN "saved" ELSE "skipped"
    /\ Proceed("Autotune")
    /\ UNCHANGED << dispVars, inputVars, offlineVars, searchVars, benchVars, calExists, imageVars, fruitVars, thresholds,
                    fileVars, normVars, scoreVars, resultVars >>

\* the summary cli_score loads: the score JSON if it exists and parses
LoadSummary(file, doc) == IF file = "valid" THEN doc ELSE DefaultSummary

\* mutant: the retry is run with check=False
cli_score_IgnoresSecondFailure(rc1, exit2, file, doc) ==
    /\ scoreCalls' =
          IF rc1 = 0 THEN Append(scoreCalls, [mode |-> "with", exit |-> "ok"])
          ELSE Append(Append(scoreCalls, [mode |-> "with", exit |-> "nonzero"]),
                      [mode |-> "without", exit |-> exit2])
    /\ scoreFile' = file
    /\ scoreDoc' = doc
    /\ summary' = LoadSummary(file, doc)
    /\ Proceed("Score")

\* cli_score(inp, out, thresholds): first with --thresholds (no check, no
\* timeout), then, on a nonzero exit, _run without it (timeout 15)
cli_score(rc1, exit2, file, doc) ==
    LET first  == [mode |-> "with", exit |-> IF rc1 = 0 THEN "ok" ELSE "nonzero"]
        second == [mode |-> "without", exit |-> exit2]
    IN  IF rc1 = 0
        THEN /\ scoreCalls' = Append(scoreCalls, first)
             /\ scoreFile' = file
             /\ scoreDoc' = doc
             /\ summary' = LoadSummary(file, doc)
             /\ Proceed("Score")
        ELSE /\ scoreCalls' = Append(Append(scoreCalls, first), second)
             /\ scoreFile' = file
             /\ scoreDoc' = doc
             /\ IF exit2 = "ok"
                THEN /\ summary' = LoadSummary(file, doc)
                     /\ Proceed("Score")
                ELSE /\ UNCHANGED summary
                     /\ Fail("Score", ExitError(exit2))

ScoreStep ==
    /\ pc = "Score"
    /\ hist' = Append(hist, "Score")
    /\ IF ~NonEmpty(idx)
       THEN /\ Fail("Score", "error")
            /\ UNCHANGED << scoreVars, dispVars >>
       ELSE \/ \E rc1 \in {0, 1},
                  exit2 \in Exits,
                  file \in {"missing", "empty", "valid"} :
                 /\ rc1 = 0 => exit2 = "ok"
                 /\ \E doc \in (IF file = "valid" THEN ScoreDocs ELSE {DefaultSummary}) :
                      cli_score(rc1, exit2, file, doc)
                 /\ UNCHANGED dispVars
            \/ /\ WaitForever("score --thresholds")
               /\ UNCHANGED scoreVars
    /\ UNCHANGED << inputVars, offlineVars, searchVars, benchVars, calExists, imageVars, fruitVars, thresholds,
                    fileVars, normVars, resultVars, tuneVars >>

\* try: summary = _apply_threshold_overrides(...) except: warn
OverrideStep ==
    /\ pc = "Override"
    /\ hist' = Append(hist, "Override")
    /\ LET r == _apply_threshold_overrides(idx = "rows", idxRow, thresholds, summary)
       IN  summary' = IF r.raised THEN summary ELSE r.summary
    /\ Proceed("Override")
    /\ UNCHANGED << dispVars, inputVars, offlineVars, searchVars, benchVars, calExists, imageVars, fruitVars, thresholds,
                    fileVars, normVars, scoreCalls, scoreFile, scoreDoc,
                    resultVars, tuneVars >>

\* the final document and its single json.dump
FinalDoc ==
    [image |-> jpgPath, fruitUsed |-> fruitType, detected |-> fruitMeta,
     profile |-> profile.name, summary |-> summary]

\* mutant: an exception after the document was written
PersistStep_RaisesAfterWrite ==
    /\ pc = "Persist"
    /\ hist' = Append(hist, "Persist")
    /\ resultDoc' = FinalDoc
    /\ resultFile' = "complete"
    /\ resultWrites' = resultWrites + 1
    /\ \E raises \in BOOLEAN :
         IF raises THEN Fail("Persist", "error") ELSE Proceed("Persist")
    /\ UNCHANGED << dispVars, inputVars, offlineVars, searchVars, benchVars, calExists, imageVars, fruitVars, thresholds,
                    fileVars, normVars, scoreVars, tuneVars >>

PersistStep ==
    /\ pc = "Persist"
    /\ hist' = Append(hist, "Persist")
    /\ resultDoc' = FinalDoc
    /\ resultFile' = "complete"
    /\ resultWrites' = resultWrites + 1
    /\ \E sw \in SwallowedRaises({"show_result", "sleep"}) :
         displayErrs' = displayErrs \cup sw
    /\ Proceed("Persist")
    /\ UNCHANGED << blocked, inputVars, offlineVars, searchVars, benchVars, calExists, imageVars, fruitVars, thresholds,
                    fileVars, normVars, scoreVars, tuneVars >>

Next ==
    \/ Start
    \/ CaptureStep
    \/ ClassifyStep
    \/ ResolveProfileStep
    \/ RecaptureStep
    \/ AcquireStep
    \/ NormalizeStep
    \/ CalibrateStep
    \/ IndexStep
    \/ AutotuneStep
    \/ ScoreStep
    \/ OverrideStep
    \/ PersistStep

Spec == Init /\ [][Next]_vars

\* run_pipeline is one thread of straight-line code: while it is not waiting
\* on a child, its next statement is executed
SpecLive == Init /\ [][Next]_vars /\ WF_vars(Next)

---------------------------------------------------------------------------
(* The threshold override on its own: inputs drawn from bounded sets *)

OpsTried == {">=", "<=", "!="}
ThrValues == {v * Unit : v \in 0 .. (MaxVal - 1)}
CellValues == {Num(0), Num(MaxVal * Unit), Txt}
CondFeatures == {"ri", "nir_red_ratio"}

\* operator lists of one condition: distinct operators, at most MaxOps of them
RECURSIVE OpLists(_)
OpLists(n) ==
    IF n = 0 THEN {<<>>}
    ELSE LET shorter == OpLists(n - 1)
         IN  shorter \cup
             { Append(l, Op(o, t)) : l \in {x \in shorter : Len(x) = n - 1},
                                     o \in OpsTried, t \in ThrValues }

DistinctOps(l) == \A i, j \in 1 .. Len(l) : i # j => l[i].op # l[j].op

CondsOf(f) ==
    { [feat |-> f, kind |-> "other", ops |-> <<>>] }
    \cup { Cond(f, l) : l \in {x \in OpLists(MaxOps) : DistinctOps(x)} }

\* override maps: at most one condition per feature, in either order
OverrideMaps ==
    { <<>> }
    \cup { <<c>> : c \in UNION { CondsOf(f) : f \in CondFeatures } }
    \cup { <<c, d>> : c \in CondsOf("ri"), d \in CondsOf("nir_red_ratio") }
    \cup { <<d, c>> : c \in {x \in CondsOf("ri") : Len(x.ops) <= 1},
                      d \in {x \in CondsOf("nir_red_ratio") : Len(x.ops) <= 1} }

\* index rows: ri (or its alias ripe_index) and nir_red_ratio present or not
OverrideRows ==
    { ("y_over_g" :> Num(Unit)) }
    \cup { ("ri" :> a) : a \in CellValues }
    \cup { ("ripe_index" :> a) : a \in CellValues }
    \cup { ("ri" :> a) @@ ("nir_red_ratio" :> b) : a, b \in CellValues }

InitOverride ==
    /\ pc = "Override"
    /\ hist = <<>>
    /\ errKind = "none"
    /\ failedAt = ""
    /\ forceFruit = Unset
    /\ PROFILES = <<>>
    /\ displayReal = FALSE
    /\ displayErrs = {}
    /\ blocked = ""
    /\ calExists = TRUE
    /\ captures = <<>>
    /\ images = {}
    /\ jpgPath = "raw.jpg"
    /\ fruitMeta = "unknown"
    /\ fruitType = "unknown"
    /\ profile = EmptyProfile
    /\ thresholds \in OverrideMaps
    /\ raw = "rows" /\ norm = "rows" /\ cal = "rows"
    /\ idx \in {"header", "rows"}
    /\ idxRow \in (IF idx = "rows" THEN OverrideRows ELSE {NoRow})
    /\ normOutcome = "ok"
    /\ fallbackCalls = 0
    /\ scoreCalls = <<>>
    /\ scoreFile \in {"missing", "valid"}
    /\ scoreDoc \in (IF scoreFile = "valid" THEN ScoreDocs ELSE {DefaultSummary})
    /\ summary = LoadSummary(scoreFile, scoreDoc)
    /\ resultFile = "absent"
    /\ resultWrites = 0
    /\ resultDoc = NoDoc
    /\ autotuneEnv = NoAutotune
    /\ diskProfiles = <<>>
    /\ diskExists = FALSE
    /\ bakProfiles = NoBackup
    /\ autotuneRes = "none"
    /\ featureRow = <<>>
    /\ decisionCfg = [rules |-> <<>>, fallback |-> ""]
    /\ liveOut = [done |-> FALSE, raised |-> FALSE, label |-> "", votes |-> <<>>]
    /\ evalOut = [done |-> FALSE, raised |-> FALSE, label |-> "", votes |-> <<>>]
    /\ freshRows = <<>>
    /\ badRows = <<>>
    /\ useNir = FALSE
    /\ tuneOut = [status |-> "none", combos |-> 0, thr |-> <<>>, acc |-> 0, n |-> 0, fp |-> 0]
    /\ BenchIdle

NextOverride == OverrideStep

SpecOverride == InitOverride /\ [][NextOverride]_vars

---------------------------------------------------------------------------
(* The decision rules: eval_rules_verbose (ripeness_index_run.py, live    *)
(* scoring) and classify_row / apply_rule (evaluator.py, accuracy).       *)

\* rule lists have at most MaxRules rules
MaxRules == 3

\* a float("nan") value, or the CSV cell "nan"
NaN == [t |-> "nan", v |-> 0]
\* the CSV cell ""
EmptyCell == [t |-> "empty", v |-> 0]

\* thresholds: a number, or a [lo, hi] list in the order the config gives it
Scalar(n) == [t |-> "num", lo |-> n, hi |-> n]
Pair(a, b) == [t |-> "pair", lo |-> a, hi |-> b]

Min(a, b) == IF a <= b THEN a ELSE b

\* str.lower() on the labels of the model
Lower(label) ==
    CASE label = "Ripe"   -> "ripe"
      [] label = "Unripe" -> "unripe"
      [] OTHER            -> label

Rule(index, op, value, vote) ==
    [index |-> index, op |-> op, value |-> value, vote |-> vote]

\* mutant: between takes the pair as given, lo = thr[0], hi = thr[1]
Compare_BetweenAsGiven(x, op, thr) ==
    IF op \in {"<", "<=", ">", ">="}
    THEN IF thr.t = "pair" THEN "raise"
         ELSE IF x.t = "nan" THEN "F"
         ELSE IF OpHolds(op, x.v, thr.lo) THEN "T" ELSE "F"
    ELSE IF op = "between"
    THEN IF x.t = "nan" THEN "F"
         ELSE IF thr.lo <= x.v /\ x.v <= thr.hi THEN "T" ELSE "F"
    ELSE "F"

\* x <op> thr for a float x and a threshold thr, as Python evaluates it:
\* "T", "F", or "raise" (TypeError: float compared with a list)
Compare(x, op, thr) ==
    IF op \in {"<", "<=", ">", ">="}
    THEN IF thr.t = "pair" THEN "raise"
         ELSE IF x.t = "nan" THEN "F"
         ELSE IF OpHolds(op, x.v, thr.lo) THEN "T" ELSE "F"
    ELSE IF op = "between"
    THEN \* lo, hi = sorted(thr) if it is a list else (thr, thr)
         LET lo == Min(thr.lo, thr.hi)
             hi == Max(thr.lo, thr.hi)
         IN  IF x.t = "nan" THEN "F"
             ELSE IF lo <= x.v /\ x.v <= hi THEN "T" ELSE "F"
    ELSE "F"

RECURSIVE CountOf(_, _)
\* Counter(votes)[v]
CountOf(votes, v) ==
    IF votes = <<>> THEN 0
    ELSE (IF Head(votes) = v THEN 1 ELSE 0) + CountOf(Tail(votes), v)

RECURSIVE FirstMax(_, _, _)
\* max(items, key=count) over the keys in insertion order: the first key
\* with the greatest count is kept
FirstMax(keys, votes, best) ==
    IF keys = <<>> THEN best
    ELSE IF CountOf(votes, Head(keys)) > CountOf(votes, best)
         THEN FirstMax(Tail(keys), votes, Head(keys))
         ELSE FirstMax(Tail(keys), votes, best)

\* mutant: the last of the most frequent keys is kept
most_common_LastMax(votes) ==
    LET keys == Dedup(votes, {})
        top  == {i \in 1 .. Len(keys) :
                   \A j \in 1 .. Len(keys) :
                      CountOf(votes, keys[j]) <= CountOf(votes, keys[i])}
    IN  keys[CHOOSE i \in top : \A j \in top : j <= i]

\* Counter(votes).most_common(1)[0][0], for a non-empty list of votes
most_common(votes) ==
    LET keys == Dedup(votes, {})
    IN  FirstMax(Tail(keys), votes, Head(keys))

NoOutcome == [done |-> FALSE, raised |-> FALSE, label |-> "", votes |-> <<>>]
Raised == [done |-> TRUE, raised |-> TRUE, label |-> "", votes |-> <<>>]
Returned(label, votes) ==
    [done |-> TRUE, raised |-> FALSE, label |-> label, votes |-> votes]

NoVotes == [raised |-> FALSE, votes |-> <<>>]

RECURSIVE LiveVotes(_, _)
\* the for-loop of eval_rules_verbose: val = indices_vals.get(idx, nan),
\* the rule is tested, a rule that passes appends its vote
LiveVotes(row, rules) ==
    IF rules = <<>> THEN NoVotes
    ELSE LET r    == Head(rules)
             val  == IF r.index \in DOMAIN row THEN row[r.index] ELSE NaN
             c    == Compare(val, r.op, r.value)
             rest == LiveVotes(row, Tail(rules))
         IN  IF c = "raise" \/ rest.raised THEN [raised |-> TRUE, votes |-> <<>>]
             ELSE IF c = "T" THEN [rest EXCEPT !.votes = <<r.vote>> \o @]
             ELSE rest

\* mutant: with no vote the label is always "unripe"
eval_rules_verbose_FixedFallback(row, cfg) ==
    LET lv == LiveVotes(row, cfg.rules)
    IN  IF lv.raised THEN Raised
        ELSE IF lv.votes = <<>> THEN Returned("unripe", <<>>)
        ELSE Returned(most_common(lv.votes), lv.votes)

\* eval_rules_verbose(indices_vals, decision_cfg, verbose) -> label, votes
eval_rules_verbose(row, cfg) ==
    LET lv == LiveVotes(row, cfg.rules)
    IN  IF lv.raised THEN Raised
        ELSE IF lv.votes = <<>> THEN Returned(cfg.fallback, <<>>)
        ELSE Returned(most_common(lv.votes), lv.votes)

\* apply_rule(val, op, thr): float(val) fails on a non-numeric cell -> False
apply_rule(cell, op, thr) ==
    IF cell.t \in {"txt", "empty"} THEN "F" ELSE Compare(cell, op, thr)

RECURSIVE EvalVotes(_, _)
\* the for-loop of classify_row: a rule whose column is missing or "" is
\* not tested at all
EvalVotes(row, rules) ==
    IF rules = <<>> THEN NoVotes
    ELSE LET r    == Head(rules)
             rest == EvalVotes(row, Tail(rules))
             c    == IF r.index \in DOMAIN row /\ row[r.index] # EmptyCell
                     THEN apply_rule(row[r.index], r.op, r.value)
                     ELSE "F"
         IN  IF c = "raise" \/ rest.raised THEN [raised |-> TRUE, votes |-> <<>>]
             ELSE IF c = "T" THEN [rest EXCEPT !.votes = <<r.vote>> \o @]
             ELSE rest

\* classify_row(row, rules, fallback) -> label
classify_row(row, rules, fallback) ==
    LET ev == EvalVotes(row, rules)
    IN  IF ev.raised THEN Raised
        ELSE IF ev.votes = <<>> THEN Returned(Lower(fallback), <<>>)
        ELSE Returned(Lower(most_common(ev.votes)), <<>>)

DecFeatures == {"r_over_g", "y_over_g"}

\* the rules of the model's decision configs
RulePool ==
    { Rule("r_over_g", ">=", Scalar(120), "ripe"),
      Rule("r_over_g", "<=", Scalar(120), "unripe"),
      Rule("r_over_g", "between", Pair(200, 100), "ripe"),
      Rule("r_over_g", ">", Pair(100, 200), "unripe"),
      Rule("r_over_g", "between", Scalar(150), "unripe"),
      Rule("r_over_g", "~", Scalar(120), "ripe"),
      Rule("r_over_g", ">=", Scalar(120), "Ripe"),
      Rule("y_over_g", ">=", Scalar(120), "ripe"),
      Rule("y_over_g", "<", Scalar(120), "unripe"),
      Rule("y_over_g", "between", Pair(100, 200), "unripe"),
      Rule("y_over_g", "<=", Pair(100, 200), "ripe") }

RECURSIVE RuleLists(_)
\* the rule lists of length n
RuleLists(n) ==
    IF n = 0 THEN {<<>>}
    ELSE {<<r>> \o l : r \in RulePool, l \in RuleLists(n - 1)}

DecisionCfgs ==
    [rules : UNION {RuleLists(n) : n \in 0 .. MaxRules}, fallback : {"unripe", "Ripe"}]

\* feature rows: a column may be missing; the cells are floats (live) or the
\* strings of a CSV (evaluator)
FeatureRows ==
    UNION { [D -> {Num(90), Num(150), NaN, Txt, EmptyCell}] : D \in SUBSET DecFeatures }

\* the row is one the live caller can pass: computed ratios, all floats
FloatRow(row) == \A k \in DOMAIN row : row[k].t \in {"num", "nan"}

NoCfg == [rules |-> <<>>, fallback |-> ""]

\* the decision variables while no row is being scored
OfflineIdle ==
    /\ featureRow = <<>>
    /\ decisionCfg = NoCfg
    /\ liveOut = NoOutcome
    /\ evalOut = NoOutcome

\* the pipeline variables while no scan runs
PipelineIdle ==
    /\ pc = "Offline"
    /\ hist = <<>>
    /\ errKind = "none"
    /\ failedAt = ""
    /\ forceFruit = Unset
    /\ PROFILES = <<>>
    /\ displayReal = FALSE
    /\ displayErrs = {}
    /\ blocked = ""
    /\ calExists = TRUE
    /\ captures = <<>>
    /\ images = {}
    /\ jpgPath = ""
    /\ fruitMeta = ""
    /\ fruitType = ""
    /\ profile = EmptyProfile
    /\ thresholds = <<>>
    /\ raw = "missing" /\ norm = "missing" /\ cal = "missing" /\ idx = "missing"
    /\ idxRow = NoRow
    /\ normOutcome = "none"
    /\ fallbackCalls = 0
    /\ scoreCalls = <<>>
    /\ scoreFile = "missing"
    /\ scoreDoc = DefaultSummary
    /\ summary = DefaultSummary
    /\ resultFile = "absent"
    /\ resultWrites = 0
    /\ resultDoc = NoDoc
    /\ autotuneEnv = NoAutotune
    /\ diskProfiles = <<>>
    /\ diskExists = FALSE
    /\ bakProfiles = NoBackup
    /\ autotuneRes = "none"

pipelineVars == << pc, hist, errKind, failedAt, dispVars, inputVars, calExists,
                   imageVars, fruitVars, thresholds, fileVars, normVars,
                   scoreVars, resultVars, tuneVars >>

\* the search variables while no search runs
SearchIdle ==
    /\ freshRows = <<>>
    /\ badRows = <<>>
    /\ useNir = FALSE
    /\ tuneOut = [status |-> "none", combos |-> 0, thr |-> <<>>, acc |-> 0, n |-> 0, fp |-> 0]

InitDecision ==
    /\ PipelineIdle
    /\ SearchIdle
    /\ featureRow \in FeatureRows
    /\ decisionCfg \in DecisionCfgs
    /\ liveOut = NoOutcome
    /\ evalOut = NoOutcome
    /\ BenchIdle

\* run_csv_mode: label, votes, _ = eval_rules_verbose(ratios, decision_cfg, ...)
LiveScore ==
    /\ pc = "Offline"
    /\ ~liveOut.done
    /\ FloatRow(featureRow)
    /\ liveOut' = eval_rules_verbose(featureRow, decisionCfg)
    /\ UNCHANGED << pipelineVars, searchVars, benchVars, featureRow, decisionCfg, evalOut >>

\* score_paths: pred = classify_row(row, rules, fallback)
AccuracyScore ==
    /\ pc = "Offline"
    /\ ~evalOut.done
    /\ decisionCfg # NoCfg
    /\ evalOut' = classify_row(featureRow, decisionCfg.rules, decisionCfg.fallback)
    /\ UNCHANGED << pipelineVars, searchVars, benchVars, featureRow, decisionCfg, liveOut >>

NextDecision == LiveScore \/ AccuracyScore

SpecDecision == InitDecision /\ [][NextDecision]_vars

---------------------------------------------------------------------------
(* The offline threshold search of evaluator_autotune.py.                 *)
(* A candidate threshold is kept exact: the integer thr * Den for the     *)
(* feature's denominator Den, feature values being in hundredths.         *)

\* a population has at most MaxPop rows
MaxPop == 2

\* the cell of a column the row lacks
Absent == [t |-> "absent", v |-> 0]

TuneRow(y, r, n) == [y_over_g |-> y, r_over_g |-> r, nir_over_red |-> n]

RECURSIVE pull(_, _)
\* pull(idx, rows): the values float() accepts, in row order
pull(col, rows) ==
    IF rows = <<>> THEN <<>>
    ELSE (IF Head(rows)[col].t = "num" THEN <<Head(rows)[col].v>> ELSE <<>>)
         \o pull(col, Tail(rows))

RECURSIVE SeqSum(_)
SeqSum(s) == IF s = <<>> THEN 0 ELSE Head(s) + SeqSum(Tail(s))

RECURSIVE SortedSeq(_)
\* sorted(set) of numbers
SortedSeq(S) ==
    IF S = {} THEN <<>>
    ELSE LET m == CHOOSE x \in S : \A z \in S : x <= z
         IN  <<m>> \o SortedSeq(S \ {m})

RECURSIVE InsertSorted(_, _)
InsertSorted(x, s) ==
    IF s = <<>> THEN <<x>>
    ELSE IF x <= Head(s) THEN <<x>> \o s
    ELSE <<Head(s)>> \o InsertSorted(x, Tail(s))

RECURSIVE sorted(_)
\* sorted(vals) of a list of numbers
sorted(vals) == IF vals = <<>> THEN <<>> ELSE InsertSorted(Head(vals), sorted(Tail(vals)))

\* quantiles(vals, [k/100]) for a non-empty vals, times 100:
\* i = (n-1)*q; lo = int(i); hi = min(lo+1, n-1); t = i - lo
quantiles(vals, k) ==
    LET xs == sorted(vals)
        n  == Len(xs)
        i  == (n - 1) * k
        lo == i \div 100
        hi == Min(lo + 1, n - 1)
        t  == i % 100
    IN  xs[lo + 1] * (100 - t) + xs[hi + 1] * t

\* the denominator of the candidates of a feature with values F and B
Den(F, B) == 200 * Max(1, Len(F)) * Max(1, Len(B))

\* the finite candidates of build_candidates for a feature the fresh rows
\* have higher (y_over_g, r_over_g): midpoints of the fresh low quantiles and
\* the bad high quantiles, the midpoint of the means, and those quantiles
HighCands(F, B) ==
    LET lf == Max(1, Len(F))
        lb == Max(1, Len(B))
        mids == IF F # <<>> /\ B # <<>>
                THEN { (quantiles(F, 10) + quantiles(B, 90)) * lf * lb,
                       (quantiles(F, 20) + quantiles(B, 80)) * lf * lb,
                       (quantiles(F, 30) + quantiles(B, 70)) * lf * lb,
                       100 * (SeqSum(F) * lb + SeqSum(B) * lf) }
                ELSE {}
        fq == IF F # <<>> THEN {2 * quantiles(F, k) * lf * lb : k \in {10, 20, 30}} ELSE {}
        bq == IF B # <<>> THEN {2 * quantiles(B, k) * lf * lb : k \in {70, 80, 90}} ELSE {}
    IN  mids \cup fq \cup bq

\* the same for nir_over_red, which the fresh rows have lower
LowCands(F, B) ==
    LET lf == Max(1, Len(F))
        lb == Max(1, Len(B))
        mids == IF F # <<>> /\ B # <<>>
                THEN { (quantiles(F, 90) + quantiles(B, 10)) * lf * lb,
                       (quantiles(F, 80) + quantiles(B, 20)) * lf * lb,
                       (quantiles(F, 70) + quantiles(B, 30)) * lf * lb,
                       100 * (SeqSum(F) * lb + SeqSum(B) * lf) }
                ELSE {}
        fq == IF F # <<>> THEN {2 * quantiles(F, k) * lf * lb : k \in {70, 80, 90}} ELSE {}
        bq == IF B # <<>> THEN {2 * quantiles(B, k) * lf * lb : k \in {10, 20, 30}} ELSE {}
    IN  mids \cup fq \cup bq

\* the orders in which S can be enumerated
Perms(S) ==
    {s \in [1 .. Cardinality(S) -> S] : \A i, j \in 1 .. Cardinality(S) : i # j => s[i] # s[j]}

\* sorted(set(...)) then the NaNs pruned: the candidates in rising order;
\* when exactly one population has values the list sorted holds NaNs, which
\* compare false with everything, and the order of the others is not fixed
CandOrders(S, F, B) ==
    IF (F = <<>>) # (B = <<>>) THEN Perms(S) ELSE {SortedSeq(S)}

\* float(row.get(col, "nan")) raises on a cell that is no number
FloatRaises(row, col) == row[col].t = "txt"

\* math.isfinite(v) and v >= thr (v <= thr for nir_over_red), thr = num / den
VotesRipe(cell, num, den, high) ==
    /\ cell.t = "num"
    /\ IF high THEN cell.v * den >= num ELSE cell.v * den <= num

\* classify(row, thr, use_nir) of evaluator_autotune.py: "raise", "ripe" or
\* the fallback "unripe"
autotune_classify(row, thr, use_nir) ==
    IF FloatRaises(row, "y_over_g") \/ FloatRaises(row, "r_over_g")
       \/ (use_nir /\ FloatRaises(row, "nir_over_red"))
    THEN "raise"
    ELSE IF \/ VotesRipe(row.y_over_g, thr.y_over_g, thr.dy, TRUE)
            \/ VotesRipe(row.r_over_g, thr.r_over_g, thr.dr, TRUE)
            \/ use_nir /\ VotesRipe(row.nir_over_red, thr.nir_over_red, thr.dn, FALSE)
    THEN "ripe" ELSE "unripe"

\* the rows of `rows` classified as `label`
CountLabel(rows, thr, use_nir, label) ==
    Cardinality({i \in 1 .. Len(rows) : autotune_classify(rows[i], thr, use_nir) = label})

\* evaluate(fresh_rows, bad_rows, thr, use_nir): fresh should be "ripe", bad "unripe"
evaluate(fresh, bad, thr, use_nir) ==
    [raised |-> CountLabel(fresh \o bad, thr, use_nir, "raise") > 0,
     thr |-> thr, nir |-> use_nir,
     tp |-> CountLabel(fresh, thr, use_nir, "ripe"),
     fn |-> CountLabel(fresh, thr, use_nir, "unripe"),
     fp |-> CountLabel(bad, thr, use_nir, "ripe"),
     tn |-> CountLabel(bad, thr, use_nir, "unripe")]

\* score > best[0] for score = (acc, -fp); both are over the same rows
ScoreGreater(S, T) ==
    \/ S.tp + S.tn > T.tp + T.tn
    \/ S.tp + S.tn = T.tp + T.tn /\ S.fp < T.fp

\* thr without the key "nir_over_red"
NoThr == -1

\* best = None
NoBest == [raised |-> FALSE, thr |-> <<>>, nir |-> FALSE,
           tp |-> -1, fn |-> 0, fp |-> 0, tn |-> 0]

\* if best is None or score > best[0]: best = (score, thr, S)
Better(S, best) == IF ScoreGreater(S, best) THEN S ELSE best

\* thr = {"y_over_g": y, "r_over_g": r[, "nir_over_red": n]}
Thr(y, r, n, c) ==
    [y_over_g |-> y, r_over_g |-> r, nir_over_red |-> n,
     dy |-> c.dy, dr |-> c.dr, dn |-> c.dn]

RECURSIVE LoopN(_, _, _, _, _)
\* for n in n_cands, from the k-th on
LoopN(k, best, y, r, c) ==
    IF k > Len(c.no) \/ best.raised THEN best
    ELSE LET S == evaluate(c.fresh, c.bad, Thr(y, r, c.no[k], c), TRUE)
         IN  LoopN(k + 1, IF S.raised THEN S ELSE Better(S, best), y, r, c)

RECURSIVE LoopR(_, _, _, _)
\* for r in r_cands, from the j-th on
LoopR(j, best, y, c) ==
    IF j > Len(c.ro) \/ best.raised THEN best
    ELSE IF c.nir
    THEN LoopR(j + 1, LoopN(1, best, y, c.ro[j], c), y, c)
    ELSE LET S == evaluate(c.fresh, c.bad, Thr(y, c.ro[j], NoThr, c), FALSE)
         IN  LoopR(j + 1, IF S.raised THEN S ELSE Better(S, best), y, c)

RECURSIVE LoopY(_, _, _)
\* for y in y_cands, from the i-th on
LoopY(i, best, c) ==
    IF i > Len(c.yo) \/ best.raised THEN best
    ELSE LoopY(i + 1, LoopR(1, best, c.yo[i], c), c)

NoTune == [status |-> "none", combos |-> 0, thr |-> <<>>, acc |-> 0, n |-> 0, fp |-> 0]
Insufficient(why) == [NoTune EXCEPT !.status = why]
\* an exception of classify ends main
Crashed == [NoTune EXCEPT !.status = "raised"]

\* main of evaluator_autotune.py, the candidates of each feature enumerated
\* in the order yo, ro, no
autotune_main(fresh, bad, use_nir, yo, ro, no) ==
    IF fresh = <<>> \/ bad = <<>> THEN Insufficient("no data")
    ELSE IF yo = <<>> \/ ro = <<>> THEN Insufficient("not enough variability")
    ELSE LET nir  == use_nir /\ no # <<>>
             c    == [fresh |-> fresh, bad |-> bad, nir |-> nir,
                      yo |-> yo, ro |-> ro, no |-> IF nir THEN no ELSE <<>>,
                      dy |-> Den(pull("y_over_g", fresh), pull("y_over_g", bad)),
                      dr |-> Den(pull("r_over_g", fresh), pull("r_over_g", bad)),
                      dn |-> Den(pull("nir_over_red", fresh), pull("nir_over_red", bad))]
             best == LoopY(1, NoBest, c)
         IN  IF best.raised THEN Crashed
             ELSE [status |-> "ok",
                   combos |-> Len(yo) * Len(ro) * (IF nir THEN Len(no) ELSE 1),
                   thr |-> best.thr, acc |-> best.tp + best.tn,
                   n |-> Len(fresh) + Len(bad), fp |-> best.fp]

\* the rows of the model's populations
TuneRowPool ==
    { TuneRow(Num(200), Num(200), Num(100)),
      TuneRow(Num(100), Num(100), Num(200)),
      TuneRow(Num(100), Num(200), Num(200)),
      TuneRow(Absent, Num(100), Absent),
      TuneRow(Txt, Num(200), Num(100)) }

RECURSIVE RowLists(_)
RowLists(n) ==
    IF n = 0 THEN {<<>>}
    ELSE {<<r>> \o l : r \in TuneRowPool, l \in RowLists(n - 1)}

Populations == UNION {RowLists(n) : n \in 0 .. MaxPop}

\* the populations of the autotune scenario: r_over_g alone
ToyFresh == << TuneRow(Absent, Num(150), Absent), TuneRow(Absent, Num(160), Absent),
               TuneRow(Absent, Num(170), Absent) >>
ToyBad   == << TuneRow(Absent, Num(50), Absent), TuneRow(Absent, Num(60), Absent),
               TuneRow(Absent, Num(70), Absent) >>
\* the same rows as a CSV of write_output_csv has them, y_over_g filled in
ToyFreshY == << TuneRow(Num(150), Num(150), Absent), TuneRow(Num(160), Num(160), Absent),
                TuneRow(Num(170), Num(170), Absent) >>
ToyBadY   == << TuneRow(Num(50), Num(50), Absent), TuneRow(Num(60), Num(60), Absent),
                TuneRow(Num(70), Num(70), Absent) >>

\* the candidate lists build_candidates can return for the populations
YOrders(fresh, bad) ==
    LET F == pull("y_over_g", fresh)
        B == pull("y_over_g", bad)
    IN  CandOrders(HighCands(F, B), F, B)
ROrders(fresh, bad) ==
    LET F == pull("r_over_g", fresh)
        B == pull("r_over_g", bad)
    IN  CandOrders(HighCands(F, B), F, B)
NOrders(fresh, bad, use_nir) ==
    LET F == pull("nir_over_red", fresh)
        B == pull("nir_over_red", bad)
    IN  IF use_nir THEN CandOrders(LowCands(F, B), F, B) ELSE {<<>>}

\* what main can return on the populations
TuneOutcomes(fresh, bad, use_nir) ==
    { autotune_main(fresh, bad, use_nir, yo, ro, no) :
        yo \in YOrders(fresh, bad), ro \in ROrders(fresh, bad),
        no \in NOrders(fresh, bad, use_nir) }

InitTune ==
    /\ PipelineIdle
    /\ OfflineIdle
    /\ \E pops \in (Populations \X Populations)
                     \cup { << ToyFresh, ToyBad >>, << ToyFreshY, ToyBadY >> } :
          /\ freshRows = pops[1]
          /\ badRows = pops[2]
    /\ useNir \in BOOLEAN
    /\ tuneOut = NoTune
    /\ BenchIdle

\* python3 evaluator_autotune.py [--use-nir]
TuneSearch ==
    /\ pc = "Offline"
    /\ tuneOut = NoTune
    /\ tuneOut' \in TuneOutcomes(freshRows, badRows, useNir)
    /\ UNCHANGED << pipelineVars, offlineVars, benchVars, freshRows, badRows, useNir >>

NextTune == TuneSearch

SpecTune == InitTune /\ [][NextTune]_vars

---------------------------------------------------------------------------
(* The stored documents: profiles.json and cal/apple_cal.json *)

\* saves of one document in a behaviour
MaxSaves == 2
\* write() calls json.dump makes for one document
DocLen == 2

PROFILE_PATH == "profiles.json"
BAK_PATH     == "profiles.bak"
TMP_PATH     == "profiles.tmp"
CAL_PATH     == "cal/apple_cal.json"

FileNames == {PROFILE_PATH, BAK_PATH, TMP_PATH, CAL_PATH}

\* a file that does not exist
Gone == [exists |-> FALSE, ver |-> 0, len |-> 0]
\* the ver-th document of a file, its first len chunks written
Doc(ver, len) == [exists |-> TRUE, ver |-> ver, len |-> len]
Whole(f) == f.exists /\ f.len = DocLen

\* everything but the stored documents
storeRest == << pipelineVars, offlineVars, searchVars, signalVars, indexVars, calibVars,
              buttonVars >>

InitStore ==
    /\ PipelineIdle
    /\ OfflineIdle
    /\ SearchIdle
    /\ SignalIdle
    /\ IndexIdle
    /\ CalibIdle
    /\ ButtonIdle
    /\ \E p, c \in BOOLEAN :
          /\ files = [f \in FileNames |->
                        IF (f = PROFILE_PATH /\ p) \/ (f = CAL_PATH /\ c)
                        THEN Doc(1, DocLen) ELSE Gone]
          /\ written = [f \in {PROFILE_PATH, CAL_PATH} |->
                        IF (f = PROFILE_PATH /\ p) \/ (f = CAL_PATH /\ c) THEN 1 ELSE 0]
    /\ savePc = "idle"
    /\ persistPc = "idle"
    /\ reads = {}
    /\ replaced = {}

\* _save_profiles_safe: if PROFILE_PATH.exists(): shutil.copyfile(PROFILE_PATH, backup)
SaveBackup ==
    /\ savePc = "idle"
    /\ written[PROFILE_PATH] <= MaxSaves
    /\ files' = IF files[PROFILE_PATH].exists
                THEN [files EXCEPT ![BAK_PATH] = files[PROFILE_PATH]]
                ELSE files
    /\ savePc' = "open"
    /\ UNCHANGED << storeRest, persistPc, written, reads, replaced >>

\* with open(tmp, "w", encoding="utf-8") as f
SaveOpenTmp ==
    /\ savePc = "open"
    /\ files' = [files EXCEPT ![TMP_PATH] = Doc(written[PROFILE_PATH] + 1, 0)]
    /\ written' = [written EXCEPT ![PROFILE_PATH] = @ + 1]
    /\ savePc' = "write"
    /\ UNCHANGED << storeRest, persistPc, reads, replaced >>

\* json.dump(new_profiles, f, indent=2): one write() of it
SaveWrite ==
    /\ savePc = "write"
    /\ files[TMP_PATH].len < DocLen
    /\ files' = [files EXCEPT ![TMP_PATH].len = @ + 1]
    /\ UNCHANGED << storeRest, savePc, persistPc, written, reads, replaced >>

\* os.replace(tmp, PROFILE_PATH)
SaveReplace ==
    /\ savePc = "write"
    /\ files[TMP_PATH].len = DocLen
    /\ files' = [files EXCEPT ![PROFILE_PATH] = files[TMP_PATH], ![TMP_PATH] = Gone]
    /\ replaced' = IF files[PROFILE_PATH].exists
                   THEN replaced \cup {[file |-> PROFILE_PATH, ver |-> files[PROFILE_PATH].ver]}
                   ELSE replaced
    /\ savePc' = "idle"
    /\ UNCHANGED << storeRest, persistPc, written, reads >>

\* evaluator_autotune.py --write-cal: with open(args.cal, "w") as f
PersistOpen ==
    /\ persistPc = "idle"
    /\ written[CAL_PATH] <= MaxSaves
    /\ files' = [files EXCEPT ![CAL_PATH] = Doc(written[CAL_PATH] + 1, 0)]
    /\ written' = [written EXCEPT ![CAL_PATH] = @ + 1]
    /\ replaced' = IF files[CAL_PATH].exists
                   THEN replaced \cup {[file |-> CAL_PATH, ver |-> files[CAL_PATH].ver]}
                   ELSE replaced
    /\ persistPc' = "write"
    /\ UNCHANGED << storeRest, savePc, reads >>

\* json.dump(cal, f, indent=2): one write() of it
PersistWrite ==
    /\ persistPc = "write"
    /\ files[CAL_PATH].len < DocLen
    /\ files' = [files EXCEPT ![CAL_PATH].len = @ + 1]
    /\ UNCHANGED << storeRest, savePc, persistPc, written, reads, replaced >>

\* the end of the with block
PersistClose ==
    /\ persistPc = "write"
    /\ files[CAL_PATH].len = DocLen
    /\ persistPc' = "idle"
    /\ UNCHANGED << storeRest, files, savePc, written, reads, replaced >>

\* another process opens a document and reads it to the end
ReadDocument ==
    /\ \E f \in {PROFILE_PATH, CAL_PATH} :
          /\ files[f].exists
          /\ reads' = reads \cup {[file |-> f, ver |-> files[f].ver, len |-> files[f].len]}
    /\ UNCHANGED << storeRest, files, savePc, persistPc, written, replaced >>

NextStore ==
    \/ SaveBackup
    \/ SaveOpenTmp
    \/ SaveWrite
    \/ SaveReplace
    \/ PersistOpen
    \/ PersistWrite
    \/ PersistClose
    \/ ReadDocument

SpecStore == InitStore /\ [][NextStore]_vars

---------------------------------------------------------------------------
(* Channel math: normalization by the CLEAR channel *)

\* raw counts range over 0 .. MaxCount
MaxCount == 2
\* f"{x:.8f}": eight decimals, the unit of the normalized values
OutUnit == 100000000

CLEAR == "CLEAR"
\* numeric_cols: the headers other than the CLEAR column
NormChannels == {"F3", "F7"}

\* everything but the channel math
signalRest == << pipelineVars, offlineVars, searchVars, storeVars, indexVars, calibVars,
              buttonVars >>

\* a / b to the nearest multiple of 1 / OutUnit, for b > 0
Quotient(a, b) == (2 * a * OutUnit + b) \div (2 * b)

\* float(r.get(col, "0") or "0"): the number, 0 for an empty cell; a cell
\* that is no number raises
CellRaises(cell) == cell.t = "txt"
CellValue(cell) == IF cell.t = "num" THEN cell.v ELSE 0

\* _normalize_inline, the loop "for r in rows": one row normalized
normalize_row(r) ==
    LET clr == IF CellRaises(r[CLEAR]) THEN 0 ELSE CellValue(r[CLEAR])
    IN  [c \in DOMAIN r |->
            IF c = CLEAR THEN (IF clr > 0 THEN OutUnit ELSE 0)
            ELSE IF CellRaises(r[c]) THEN 0
            ELSE IF clr > 0 THEN Quotient(CellValue(r[c]), clr) ELSE 0]

\* safe_div(a, b, eps=1e-9) of as7341_norm.py; b is a whole number of counts
safe_div(a, b) == IF b > 0 THEN Quotient(a, b) ELSE 0

\* as7341_norm.py: clr = float(s.channel_clear or 1);
\* norm = {k: safe_div(raw[k], clr) for k in KEYS}
live_norm(r) ==
    LET clr == IF r[CLEAR].v = 0 THEN 1 ELSE r[CLEAR].v
    IN  [c \in NormChannels |-> safe_div(r[c].v, clr)]

\* the cells of a CSV row: counts, a negative number, an empty cell, text
CountCells == {Num(n) : n \in 0 .. MaxCount}
ClearCells == CountCells \cup {Num(MaxCount + 1), Num(-1), EmptyCell, Txt}
Readings ==
    { r \in [NormChannels \cup {CLEAR} -> ClearCells] :
        \A c \in NormChannels : r[c] \in CountCells \cup {EmptyCell} }

\* what the sensor returns: counts
SensorReading(r) == \A c \in DOMAIN r : r[c].t = "num" /\ r[c].v >= 0

InitSignal ==
    /\ PipelineIdle
    /\ OfflineIdle
    /\ SearchIdle
    /\ StoreIdle
    /\ IndexIdle
    /\ CalibIdle
    /\ ButtonIdle
    /\ reading \in Readings
    /\ normRow = [done |-> FALSE, cells |-> <<>>]
    /\ liveNorm = [done |-> FALSE, cells |-> <<>>]

\* _normalize_inline(inp, out) on a file with the row
NormalizeInline ==
    /\ pc = "Offline"
    /\ reading # <<>>
    /\ ~normRow.done
    /\ normRow' = [done |-> TRUE, cells |-> normalize_row(reading)]
    /\ UNCHANGED << signalRest, reading, liveNorm >>

\* one turn of the loop of as7341_norm.py
NormalizeLive ==
    /\ pc = "Offline"
    /\ reading # <<>>
    /\ SensorReading(reading)
    /\ ~liveNorm.done
    /\ liveNorm' = [done |-> TRUE, cells |-> live_norm(reading)]
    /\ UNCHANGED << signalRest, reading, normRow >>

NextSignal == NormalizeInline \/ NormalizeLive

SpecSignal == InitSignal /\ [][NextSignal]_vars

---------------------------------------------------------------------------
(* Index computation: ripeness_index_run.py in CSV mode *)

\* a ratio num / den of two readings, den > 0
Ratio(num, den) == [n |-> num, d |-> den]
RatioZero == Ratio(0, 1)

\* _safe_float(x, default)
_safe_float(cell, default) == IF cell.t = "num" THEN cell.v ELSE default

\* latest.get(col, default) then _safe_float
GetFloat(latest, col, missing, default) ==
    IF col \in DOMAIN latest THEN _safe_float(latest[col], default) ELSE missing

\* find_columns(header); <<>> is None
NoCols == <<>>
find_columns(header) ==
    IF {"480", "555", "630"} \subseteq header
    THEN [g |-> "480", y |-> "555", r |-> "630"]
    ELSE IF {"F3", "F5", "F7"} \subseteq header
    THEN [g |-> "F3", y |-> "F5", r |-> "F7"]
    ELSE NoCols

\* compute_ratios_from_row(latest, cols)
compute_ratios_from_row(latest, cols) ==
    LET g0    == GetFloat(latest, cols.g, 0, 0)
        y     == GetFloat(latest, cols.y, 0, 0)
        r     == GetFloat(latest, cols.r, 0, 0)
        g     == IF g0 > 0 THEN g0 ELSE 1
        nir   == GetFloat(latest, "NIR", 0, 0)
        clear == GetFloat(latest, "CLEAR", 1, 1)
    IN  [y_over_g     |-> Ratio(y, g),
         r_over_g     |-> Ratio(r, g),
         nir_over_red |-> IF r > 0 THEN Ratio(nir, r) ELSE RatioZero,
         green_drop   |-> IF clear > 0 THEN Ratio(g, clear) ELSE RatioZero]

NoIndexRun == [status |-> "none", cols |-> <<>>, ratios |-> <<>>, label |-> ""]

\* run_csv_mode(args), no sidecar calibration beside the CSV: the decision
\* config is {"rules": [], "fallback": "unripe"}
run_csv_mode(header, rows) ==
    IF rows = <<>>
    THEN [status |-> "written", cols |-> NoCols,
          ratios |-> [k \in {"y_over_g", "r_over_g", "nir_over_red", "green_drop"} |-> RatioZero],
          label |-> "unknown"]
    ELSE LET cols == find_columns(header)
         IN  IF cols = NoCols
             THEN [NoIndexRun EXCEPT !.status = "exit 3"]
             ELSE [status |-> "written", cols |-> cols,
                   ratios |-> compute_ratios_from_row(rows[Len(rows)], cols),
                   label |-> "unripe"]

BandColumns == {"480", "555", "630", "F3", "F5", "F7"}
IndexCells == {Num(n) : n \in 0 .. MaxCount}

\* a row whose wavelength columns read (g, y, r) and whose sensor columns
\* F3, F5, F7 read (r, y, g)
CsvRow(header, g, y, r, nir, clear) ==
    [c \in header \cup {"NIR", "CLEAR"} |->
        CASE c \in {"480", "F7"} -> g
          [] c \in {"555", "F5"} -> y
          [] c \in {"630", "F3"} -> r
          [] c = "NIR"           -> nir
          [] OTHER               -> clear]

\* the reading of the end-to-end scenario: all ten channels 1000
AllChannels == {"F1", "F2", "F3", "F4", "F5", "F6", "F7", "F8", "CLEAR", "NIR"}
FlatRow == [c \in AllChannels |-> Num(1000)]

\* everything but the index computation
indexRest == << pipelineVars, offlineVars, searchVars, storeVars, signalVars, calibVars,
              buttonVars >>

InitIndex ==
    /\ PipelineIdle
    /\ OfflineIdle
    /\ SearchIdle
    /\ StoreIdle
    /\ SignalIdle
    /\ CalibIdle
    /\ ButtonIdle
    /\ \/ /\ csvHeader = AllChannels
          /\ csvRows = << FlatRow >>
       \/ /\ csvHeader \in {h \cup {"NIR", "CLEAR"} : h \in SUBSET BandColumns}
          /\ \/ csvRows = <<>>
             \/ \E g, y, r, nir \in IndexCells \cup {EmptyCell},
                   clear \in IndexCells \cup {Txt} :
                   csvRows = << CsvRow(csvHeader, g, y, r, nir, clear) >>
    /\ indexRun = NoIndexRun

\* python3 ripeness_index_run.py --in readings.csv --out index.csv
RunCsvMode ==
    /\ pc = "Offline"
    /\ csvHeader # {}
    /\ indexRun = NoIndexRun
    /\ indexRun' = run_csv_mode(csvHeader, csvRows)
    /\ UNCHANGED << indexRest, csvHeader, csvRows >>

NextIndex == RunCsvMode

SpecIndex == InitIndex /\ [][NextIndex]_vars

---------------------------------------------------------------------------
(* Calibration: calibrate_index.py and apply_offsets_scales *)

\* params.get(key, default)
GetParam(params, key, default) == IF key \in DOMAIN params THEN params[key] ELSE default

\* apply_calibration(df, cal) of calibrate_index.py, on one row of df
apply_calibration(df, calib) ==
    [band \in DOMAIN df |->
        IF band \in DOMAIN calib
        THEN (df[band] - GetParam(calib[band], "offset", 0)) * GetParam(calib[band], "scale", 1)
        ELSE df[band]]

\* apply_offsets_scales(row, channels_cfg) of ripeness_index_run.py
apply_offsets_scales(row, channels_cfg) ==
    [k \in DOMAIN row |->
        IF k \in DOMAIN channels_cfg
        THEN (row[k] + GetParam(channels_cfg[k], "offset", 0)) * GetParam(channels_cfg[k], "scale", 1)
        ELSE row[k]]

\* the entries of a calibration profile
CalEntries == { [offset |-> 1, scale |-> 2], [offset |-> -1, scale |-> 1],
                [offset |-> 0, scale |-> 2], [scale |-> 2], [offset |-> 1] }
CalProfiles == UNION { [chans -> CalEntries] : chans \in SUBSET {"F3", "F7"} }
CalRows == [{"F3", "F5"} -> 0 .. MaxCount]

\* everything but the calibration
calibRest == << pipelineVars, offlineVars, searchVars, storeVars, signalVars, indexVars,
              buttonVars >>

InitCalib ==
    /\ PipelineIdle
    /\ OfflineIdle
    /\ SearchIdle
    /\ StoreIdle
    /\ SignalIdle
    /\ IndexIdle
    /\ ButtonIdle
    /\ calRow \in CalRows
    /\ calCfg \in CalProfiles
    /\ stageCal = [done |-> FALSE, row |-> <<>>]
    /\ liveCal = [done |-> FALSE, row |-> <<>>]

\* python3 calibrate_index.py --in norm.csv --out cal.csv --cal calfile,
\* the command of cli_calibrate
CalibrateStage ==
    /\ pc = "Offline"
    /\ calRow # <<>>
    /\ ~stageCal.done
    /\ stageCal' = [done |-> TRUE, row |-> apply_calibration(calRow, calCfg)]
    /\ UNCHANGED << calibRest, calRow, calCfg, liveCal >>

\* run_json_live_mode: raw = apply_offsets_scales(raw, cal.get("channels", {}))
CalibrateLive ==
    /\ pc = "Offline"
    /\ calRow # <<>>
    /\ ~liveCal.done
    /\ liveCal' = [done |-> TRUE, row |-> apply_offsets_scales(calRow, calCfg)]
    /\ UNCHANGED << calibRest, calRow, calCfg, stageCal >>

NextCalib == CalibrateStage \/ CalibrateLive

SpecCalib == InitCalib /\ [][NextCalib]_vars

\* ---------------------------------------------------------------------------
\* The push button: ButtonHandler (button_gpio.py). The GPIO library runs
\* _pressed for each falling edge, one call at a time; every tap starts an
\* evaluate thread. press_count is shared by all of them without a lock.
\* Time is counted in ticks of 0.2 s and kept as the differences the code
\* computes: time.time() - press_start, time.time() - last_press_time, and
\* what is left of each time.sleep.
\* ---------------------------------------------------------------------------

MaxPresses == 2

\* double_tap_window = 0.4, hold_time = 5.0, bouncetime = 200 ms, in ticks
DOUBLE_TAP_WINDOW == 2
HOLD_TIME == 25
BOUNCE_TIME == 1

Least(a, b) == IF a < b THEN a ELSE b

buttonRest == << pipelineVars, offlineVars, searchVars, storeVars, signalVars,
                 indexVars, calibVars >>

\* ButtonHandler.__init__: last_press_time = 0.0 lies far more than a window
\* before any time.time(); press_count = 0
InitButton ==
    /\ PipelineIdle
    /\ OfflineIdle
    /\ SearchIdle
    /\ StoreIdle
    /\ SignalIdle
    /\ IndexIdle
    /\ CalibIdle
    /\ press_count = 0
    /\ sincePress = DOUBLE_TAP_WINDOW
    /\ pressing = [pc |-> "idle", held |-> BOUNCE_TIME, since |-> 0, seen |-> 0]
    /\ evaluators = <<>>
    /\ handled = [scan |-> 0, reset |-> 0, shutdown |-> 0]
    /\ pressLog = <<>>

\* how far time.time() - press_start is followed: to hold_time while the
\* button is down, to the bounce time otherwise
HeldCap == IF pressing.pc = "down" THEN HOLD_TIME ELSE BOUNCE_TIME

\* one tick after the state `now`
Ticked ==
    [sincePress |-> Least(sincePress + 1, DOUBLE_TAP_WINDOW),
     pressing   |-> [pressing EXCEPT
                       !.held  = IF @ < HeldCap THEN @ + 1 ELSE @,
                       !.since = IF pressing.pc \in {"adding", "setting"}
                                 THEN Least(@ + 1, DOUBLE_TAP_WINDOW) ELSE @],
     evaluators |-> [i \in 1 .. Len(evaluators) |->
                       [evaluators[i] EXCEPT !.sleep = IF @ > 0 THEN @ - 1 ELSE 0]]]

\* time passes: 0.2 s; a tick that changes no difference the code looks at
\* is left out
Tick ==
    /\ pressing.pc # "off"
    /\ << Ticked.sincePress, Ticked.pressing, Ticked.evaluators >>
          # << sincePress, pressing, evaluators >>
    /\ sincePress' = Ticked.sincePress
    /\ pressing' = Ticked.pressing
    /\ evaluators' = Ticked.evaluators
    /\ UNCHANGED << buttonRest, press_count, handled, pressLog >>

\* a falling edge outside the bounce time starts _pressed:
\* press_start = time.time()
PressedDown ==
    /\ pressing.pc = "idle"
    /\ Len(pressLog) < MaxPresses
    /\ pressing.held >= BOUNCE_TIME
    /\ pressing' = [pressing EXCEPT !.pc = "down", !.held = 0]
    /\ UNCHANGED << buttonRest, press_count, sincePress, evaluators, handled,
                    pressLog >>

\* the button is still low after hold_time: self.on_shutdown()
PressedHold ==
    /\ pressing.pc = "down"
    /\ pressing.held >= HOLD_TIME
    /\ handled' = [handled EXCEPT !.shutdown = @ + 1]
    /\ pressing' = [pressing EXCEPT !.pc = "held", !.held = BOUNCE_TIME]
    /\ pressLog' = Append(pressLog, [kind |-> "hold", gap |-> sincePress])
    /\ UNCHANGED << buttonRest, press_count, sincePress, evaluators >>

\* on_shutdown returned: self.press_count = 0; return
PressedHoldClear ==
    /\ pressing.pc = "held"
    /\ press_count' = 0
    /\ pressing' = [pressing EXCEPT !.pc = "idle"]
    /\ UNCHANGED << buttonRest, sincePress, evaluators, handled, pressLog >>

\* the button is released before hold_time: now = time.time(), the window
\* test, and for a tap inside the window the read of press_count that
\* `self.press_count += 1` starts with
PressedRelease ==
    /\ pressing.pc = "down"
    /\ pressing.held < HOLD_TIME
    /\ pressing' = [pc    |-> IF sincePress < DOUBLE_TAP_WINDOW
                              THEN "adding" ELSE "setting",
                    held  |-> Least(pressing.held, BOUNCE_TIME),
                    since |-> 0,
                    seen  |-> IF sincePress < DOUBLE_TAP_WINDOW
                              THEN press_count ELSE 0]
    /\ pressLog' = Append(pressLog, [kind |-> "tap", gap |-> sincePress])
    /\ UNCHANGED << buttonRest, press_count, sincePress, evaluators, handled >>

\* the store to press_count (seen + 1, or 1), self.last_press_time = now, and
\* threading.Thread(target=evaluate).start(): the thread sleeps for the window
PressedCount ==
    /\ pressing.pc \in {"adding", "setting"}
    /\ press_count' = IF pressing.pc = "adding" THEN pressing.seen + 1 ELSE 1
    /\ sincePress' = pressing.since
    /\ evaluators' = Append(evaluators,
                            [pc |-> "sleeping", sleep |-> DOUBLE_TAP_WINDOW])
    /\ pressing' = [pressing EXCEPT !.pc = "idle", !.since = 0, !.seen = 0]
    /\ UNCHANGED << buttonRest, handled, pressLog >>

\* evaluate, after time.sleep(double_tap_window):
\* if self.press_count == 1: self.on_scan()
EvaluateFirst(i) ==
    /\ evaluators[i].pc = "sleeping"
    /\ evaluators[i].sleep = 0
    /\ IF press_count = 1
       THEN /\ handled' = [handled EXCEPT !.scan = @ + 1]
            /\ evaluators' = [evaluators EXCEPT ![i].pc = "on_scan"]
       ELSE /\ evaluators' = [evaluators EXCEPT ![i].pc = "second"]
            /\ UNCHANGED handled
    /\ UNCHANGED << buttonRest, press_count, sincePress, pressing, pressLog >>

\* elif self.press_count == 2: self.on_reset()
EvaluateSecond(i) ==
    /\ evaluators[i].pc = "second"
    /\ IF press_count = 2
       THEN /\ handled' = [handled EXCEPT !.reset = @ + 1]
            /\ evaluators' = [evaluators EXCEPT ![i].pc = "on_reset"]
       ELSE /\ evaluators' = [evaluators EXCEPT ![i].pc = "clear"]
            /\ UNCHANGED handled
    /\ UNCHANGED << buttonRest, press_count, sincePress, pressing, pressLog >>

\* the handler, if one was called, has returned: self.press_count = 0
EvaluateClear(i) ==
    /\ evaluators[i].pc \in {"on_scan", "on_reset", "clear"}
    /\ press_count' = 0
    /\ evaluators' = [evaluators EXCEPT ![i].pc = "done"]
    /\ UNCHANGED << buttonRest, sincePress, pressing, handled, pressLog >>

NextButton ==
    \/ Tick
    \/ PressedDown
    \/ PressedHold
    \/ PressedHoldClear
    \/ PressedRelease
    \/ PressedCount
    \/ \E i \in 1 .. Len(evaluators) : EvaluateFirst(i)
    \/ \E i \in 1 .. Len(evaluators) : EvaluateSecond(i)
    \/ \E i \in 1 .. Len(evaluators) : EvaluateClear(i)

SpecButton == InitButton /\ [][NextButton]_vars

---------------------------------------------------------------------------
(* Properties of the pipeline *)

InHist(st) == \E i \in 1 .. Len(hist) : hist[i] = st
Pos(st) == CHOOSE i \in 1 .. Len(Stages) : Stages[i] = st
Last(h) == h[Len(h)]
IsStage(p) == \E i \in 1 .. Len(Stages) : Stages[i] = p
FailedIn(st) == pc = "Failed" /\ failedAt = st

\* b may directly follow a in the fixed order (Recapture is the optional one)
Follows(a, b) ==
    \/ Pos(b) = Pos(a) + 1
    \/ a = "ResolveProfile" /\ b = "Acquire"

C1_Order ==
    /\ hist # <<>> => hist[1] = "Capture"
    /\ \A i \in 1 .. (Len(hist) - 1) : Follows(hist[i], hist[i + 1])
    /\ IsStage(pc) => IF hist = <<>> THEN pc = "Capture" ELSE Follows(Last(hist), pc)
    /\ pc = "Done" => hist # <<>> /\ Last(hist) = "Persist"
    /\ pc = "Failed" => hist # <<>> /\ failedAt = Last(hist)

C1_FailedAbsorbing == [][pc = "Failed" => (pc' = "Failed" /\ hist' = hist)]_vars

\* C1: the stages of a run start in the fixed order Capture, Classify,
\* ResolveProfile, (Recapture), Acquire, Normalize, Calibrate, Index, Autotune,
\* Score, Override, Persist, each directly after its predecessor ended; Done
\* follows Persist; and once the run is Failed no stage starts any more.
C1_StageOrder == []C1_Order /\ C1_FailedAbsorbing

C1_Witness == pc = "Done" /\ Len(hist) = Len(Stages)

\* C2: the result document is written exactly once in a run that reaches Done
\* and not at all in a run that ends in Failed, whatever stage failed.
C2_ResultWrittenOnce ==
    /\ resultWrites <= 1
    /\ pc = "Done" => resultWrites = 1 /\ resultFile = "complete"
    /\ pc = "Failed" => resultWrites = 0 /\ resultFile = "absent"
    /\ resultWrites = 1 => pc = "Done"

C2_Witness == FailedIn("Score") /\ resultWrites = 0 /\ Len(scoreCalls) = 2

ArtifactOf(st) ==
    CASE st = "Acquire"   -> raw
      [] st = "Normalize" -> norm
      [] st = "Calibrate" -> cal
      [] st = "Index"     -> idx
      [] st = "Score"     -> scoreFile

\* the stage has ended: a later stage started, or the run ended (a run that
\* waits on a child of the stage is still in it)
Ended(st) == InHist(st) /\ pc # st /\ ~(pc = "Waiting" /\ Last(hist) = st)

\* C3: for each of Acquire, Normalize, Calibrate, Index and Score, an artifact
\* that is missing or empty when the stage ends makes the run Failed in that
\* stage, so that the next stage never runs.
C3_ArtifactContract ==
    \A st \in {"Acquire", "Normalize", "Calibrate", "Index", "Score"} :
        (Ended(st) /\ ArtifactOf(st) \in {"missing", "empty"}) => FailedIn(st)

\* the part of C3 that the code keeps: the four file-producing stages
C3_FileStagesContract ==
    \A st \in {"Acquire", "Normalize", "Calibrate", "Index"} :
        (Ended(st) /\ ArtifactOf(st) \in {"missing", "empty"}) => FailedIn(st)

NormalizeRan == normOutcome # "none"
NormalizeFailedPlainly ==
    NormalizeRan /\ normOutcome # "timeout" /\ ~StageOk(normOutcome, norm)

\* C4 as stated: after a timeout of the external normalizer the fallback has
\* run exactly once, its output is non-empty and the run goes on to Calibrate;
\* after any other failure the fallback has not run and the run is Failed.
C4_TimeoutAlwaysContinues ==
    /\ normOutcome = "timeout" =>
          /\ fallbackCalls = 1
          /\ NonEmpty(norm)
          /\ ~FailedIn("Normalize")
          /\ pc = "Calibrate" \/ InHist("Calibrate")
    /\ NormalizeFailedPlainly => fallbackCalls = 0 /\ FailedIn("Normalize")

\* C4 (amended): after a timeout of the external normalizer the inline
\* fallback has run exactly once and no timeout applies to it; if it returns,
\* its output is non-empty and the run goes on to Calibrate, and if it raises
\* (the raw input has no data row) the run is Failed with an ordinary error;
\* after any failure other than a timeout the fallback has not run and the
\* run is Failed.
C4_FallbackOnTimeoutOnly ==
    /\ fallbackCalls = (IF normOutcome = "timeout" THEN 1 ELSE 0)
    /\ normOutcome = "timeout" =>
          IF raw = "rows"
          THEN /\ NonEmpty(norm)
               /\ ~FailedIn("Normalize")
               /\ pc = "Calibrate" \/ InHist("Calibrate")
          ELSE FailedIn("Normalize")
    /\ FailedIn("Normalize") => errKind = "error"
    /\ NormalizeFailedPlainly => fallbackCalls = 0 /\ FailedIn("Normalize")

C4_Witness ==
    normOutcome = "timeout" /\ fallbackCalls = 1 /\ pc = "Calibrate" /\ norm = "rows"

\* C5: the scorer first runs with the thresholds attached; a second, bare run
\* happens exactly when the first one errored; when the second errors too the
\* run is Failed; the scorer never runs more than twice.
C5_ScoreRetry ==
    /\ Len(scoreCalls) <= 2
    /\ Len(scoreCalls) >= 1 => scoreCalls[1].mode = "with"
    /\ Len(scoreCalls) >= 1 => (Len(scoreCalls) = 2 <=> scoreCalls[1].exit # "ok")
    /\ Len(scoreCalls) = 2 =>
          /\ scoreCalls[2].mode = "without"
          /\ scoreCalls[2].exit # "ok" => FailedIn("Score")
          /\ scoreCalls[2].exit = "ok" => ~FailedIn("Score")
    /\ (Len(scoreCalls) = 1 /\ scoreCalls[1].exit = "ok") => ~FailedIn("Score")
    /\ (InHist("Score") /\ NonEmpty(idx) /\ blocked = "") => Len(scoreCalls) >= 1

C5_Witness ==
    FailedIn("Score") /\ Len(scoreCalls) = 2 /\ scoreCalls[2].exit = "nonzero"

CaptureStage(i) == IF i = 1 THEN "Capture" ELSE "Recapture"
AfterCapture(i) == IF i = 1 THEN "Classify" ELSE "Acquire"
LastCaptureFailed == captures # <<>> /\ Last(captures).rc # 0

CaptureNeverFatal ==
    \A i \in 1 .. Len(captures) :
        captures[i].rc # 0 =>
            /\ ~FailedIn(CaptureStage(i))
            /\ pc = AfterCapture(i) \/ InHist(AfterCapture(i))

\* C8 as stated: a capture that exits nonzero never fails the run, which goes
\* on with the next stage, and the result records the image as unavailable.
C8_ImageRecordedUnavailable ==
    /\ CaptureNeverFatal
    /\ (pc = "Done" /\ LastCaptureFailed) => resultDoc.image = "unavailable"

\* C8 (amended): a capture that exits nonzero (first capture or recapture)
\* never fails the run, which goes on with the next stage; the result records
\* the path the last capture was asked to write, whether or not the file exists.
C8_CaptureNonFatal ==
    /\ CaptureNeverFatal
    /\ pc = "Done" => captures # <<>> /\ resultDoc.image = Last(captures).path

C8_Witness ==
    /\ pc = "Done"
    /\ Len(captures) = 2
    /\ captures[1].rc # 0 /\ captures[2].rc # 0
    /\ images = {}
    /\ resultDoc.image = "raw_prof.jpg"

UnknownProfile ==
    IF "unknown" \in DOMAIN PROFILES THEN PROFILES["unknown"] ELSE EmptyProfile

ClassifyFailed == InHist("Classify") /\ fruitMeta = "unknown"

C10_AtMostOneRecapture ==
    /\ Len(captures) <= 2
    /\ Len(captures) >= 1 => captures[1].path = "raw.jpg" /\ ~captures[1].args
    /\ Len(captures) = 2 =>
          /\ captures[2].path = "raw_prof.jpg" /\ captures[2].args
          /\ InHist("Recapture")
    /\ \A i \in 1 .. Len(hist) :
          hist[i] = "Recapture" => i > 1 /\ hist[i - 1] = "ResolveProfile" /\ profile.cam
    /\ \A i, j \in 1 .. Len(hist) : i # j => hist[i] # hist[j]
    /\ Len(captures) <= Cardinality({i \in 1 .. Len(hist) : hist[i] \in {"Capture", "Recapture"}})

C10_Witness == pc = "Done" /\ Len(captures) = 2 /\ profile.cam

\* C11: a display call that raises never aborts the pipeline: no run is in
\* Failed because one of its display calls (show_scanning, show_step,
\* show_message, show_result, sleep) raised.
C11_DisplayNeverAborts == pc = "Failed" => "show_step" \notin displayErrs

\* the display calls that have a try of their own are harmless: the run goes
\* on to the next stage with the same data
SwallowedCalls == {"show_scanning", "show_message", "show_result", "sleep"}
C11_GuardedCallsHarmless ==
    [][displayErrs' # displayErrs /\ displayErrs' \ displayErrs \subseteq SwallowedCalls
          => pc' = NextStage(pc) /\ errKind' = errKind]_vars

\* C12: every external call is bounded by a timeout, so every run eventually
\* reaches Done or Failed.
C12_RunTerminates == <>(pc \in {"Done", "Failed"})

\* the calls that go through _run with a timeout never leave the run waiting
C12_TimedCallsReturn == blocked \in {"", "capture", "score --thresholds"}

\* the profile stored under the key itself, {} when there is none
StoredUnder(store, key) == IF key \in DOMAIN store THEN store[key] ELSE EmptyProfile

RECURSIVE FirstStored(_, _)
\* the first candidate, in order, that has a stored profile of its own
FirstStored(store, keys) ==
    IF keys = <<>> THEN EmptyProfile
    ELSE IF Truthy(StoredUnder(store, Head(keys))) THEN StoredUnder(store, Head(keys))
         ELSE FirstStored(store, Tail(keys))

\* C13: profile resolution returns the profile of the first candidate, in the
\* order exact name, alias, "unknown", that has a stored profile (so the alias
\* wins over "unknown" when the exact name has none), and the empty profile
\* when none has; it never fails.
C13_FirstStoredCandidate ==
    InHist("ResolveProfile") =>
        /\ ~FailedIn("ResolveProfile")
        /\ profile = FirstStored(PROFILES, _profile_candidates_for_fruit(fruitType))

\* what the code keeps: the exact name's profile when it has one, else the
\* "unknown" profile when there is one, else the alias's, else {}
C13_UnknownBeforeAlias ==
    InHist("ResolveProfile") =>
        /\ ~FailedIn("ResolveProfile")
        /\ profile = IF Truthy(StoredUnder(PROFILES, fruitType))
                     THEN StoredUnder(PROFILES, fruitType)
                     ELSE IF Truthy(StoredUnder(PROFILES, "unknown"))
                     THEN StoredUnder(PROFILES, "unknown")
                     ELSE FirstStored(PROFILES, _profile_candidates_for_fruit(fruitType))

---------------------------------------------------------------------------
(* Properties of the threshold override *)

\* the result the override was given: what cli_score returned
Prior == LoadSummary(scoreFile, scoreDoc)

OverrideActed == InHist("Override")

\* the row has the feature, under its own name or a documented alias
HasFeature(row, f) ==
    \/ f \in DOMAIN row
    \/ f = "ri" /\ "ripe_index" \in DOMAIN row
    \/ f = "nir_red_ratio" /\ "nir/red" \in DOMAIN row

FeatureValue(row, f) ==
    _to_float_safe(IF f \in DOMAIN row THEN row[f]
                   ELSE IF f = "ri" THEN row["ripe_index"] ELSE row["nir/red"])

Satisfies(op, a, b) ==
    \/ op = ">=" /\ a >= b
    \/ op = "<=" /\ a <= b
    \/ op = ">"  /\ a > b
    \/ op = "<"  /\ a < b
    \/ op = "==" /\ a = b

\* a condition passes when its feature is there and all its operators hold
ConditionPasses(e, row) ==
    /\ e.kind = "dict"
    /\ HasFeature(row, e.feat)
    /\ \A j \in 1 .. Len(e.ops) :
          Satisfies(e.ops[j].op, FeatureValue(row, e.feat), e.ops[j].thr)

AllConditionsPass ==
    \A i \in 1 .. Len(thresholds) : ConditionPasses(thresholds[i], idxRow)

\* C6: the override leaves the prior result as it is whenever some override
\* condition names a feature the index row lacks or some condition fails;
\* the result changes only if every condition passes.
C6_OverrideNeedsAllConditions ==
    OverrideActed =>
        /\ ~AllConditionsPass => summary = Prior
        /\ summary # Prior => AllConditionsPass

\* the part of C6 the code keeps: conditions with exactly one operator
SingleOperatorConditions ==
    \A i \in 1 .. Len(thresholds) :
        thresholds[i].kind = "dict" /\ Len(thresholds[i].ops) = 1

C6_SingleOperatorMaps ==
    (OverrideActed /\ SingleOperatorConditions /\ ~AllConditionsPass) => summary = Prior

PriorConfidence == IF Prior.confidence = NoneConf THEN 0 ELSE Prior.confidence

\* C7: when the override map is not empty and every condition passes, the
\* result is the prior result with label "ripe", confidence max(0.9, prior
\* confidence), hence never lowered and at least 0.9, and the provenance tag;
\* every other field is the prior one.
C7_OverrideForcesRipe ==
    (OverrideActed /\ thresholds # <<>> /\ idx = "rows" /\ AllConditionsPass) =>
        /\ summary.label = "ripe"
        /\ summary.confidence = Max(ConfFloor, PriorConfidence)
        /\ summary.confidence >= PriorConfidence /\ summary.confidence >= ConfFloor
        /\ summary.override = "profiles.indices.ripe_if"
        /\ summary.source = Prior.source

C7_Witness ==
    /\ OverrideActed /\ Len(thresholds) = 2 /\ AllConditionsPass
    /\ Prior.label = "ripe" /\ Prior.confidence > ConfFloor
    /\ summary.confidence = Prior.confidence
    /\ summary.override = "profiles.indices.ripe_if"
---------------------------------------------------------------------------
(* Properties of the decision rules *)

\* the rule names a feature the row has, with a numeric value
Usable(row, r) == r.index \in DOMAIN row /\ row[r.index].t = "num"

\* the rule passes on the row: its feature is present and numeric and the
\* value meets the threshold (between: within the sorted pair, ends included)
RulePasses(row, r) ==
    /\ Usable(row, r)
    /\ LET x == row[r.index].v
       IN  \/ r.op = ">=" /\ r.value.t = "num" /\ x >= r.value.lo
           \/ r.op = "<=" /\ r.value.t = "num" /\ x <= r.value.lo
           \/ r.op = ">"  /\ r.value.t = "num" /\ x > r.value.lo
           \/ r.op = "<"  /\ r.value.t = "num" /\ x < r.value.lo
           \/ r.op = "between" /\ \E lo, hi \in {r.value.lo, r.value.hi} :
                                    lo <= hi /\ lo <= x /\ x <= hi
                                    /\ {lo, hi} = {r.value.lo, r.value.hi}

\* the positions of the rules that pass, and the votes they cast
PassingAt(row, rules) == {i \in 1 .. Len(rules) : RulePasses(row, rules[i])}
NoRulePasses == PassingAt(featureRow, decisionCfg.rules) = {}
TimesVoted(v) ==
    Cardinality({i \in PassingAt(featureRow, decisionCfg.rules) : decisionCfg.rules[i].vote = v})
FirstVoteAt(v) ==
    CHOOSE i \in PassingAt(featureRow, decisionCfg.rules) :
        /\ decisionCfg.rules[i].vote = v
        /\ \A j \in PassingAt(featureRow, decisionCfg.rules) :
              decisionCfg.rules[j].vote = v => i <= j
VotesCast == {decisionCfg.rules[i].vote : i \in PassingAt(featureRow, decisionCfg.rules)}

\* the most voted value, the earliest first vote winning a tie
Winner ==
    CHOOSE v \in VotesCast :
        \A w \in VotesCast \ {v} :
            \/ TimesVoted(v) > TimesVoted(w)
            \/ TimesVoted(v) = TimesVoted(w) /\ FirstVoteAt(v) < FirstVoteAt(w)

LiveReturned == liveOut.done /\ ~liveOut.raised
EvalReturned == evalOut.done /\ ~evalOut.raised

SpecExampleCfg ==
    [rules |-> << Rule("r_over_g", ">=", Scalar(120), "ripe") >>, fallback |-> "unripe"]

Skippable(row, r) ==
    r.index \notin DOMAIN row \/ row[r.index].t \in {"txt", "empty"}

\* the rules of the config that are left when the skippable ones are dropped
TestedRules ==
    LET Tested(r) == ~Skippable(featureRow, r)
    IN  SelectSeq(decisionCfg.rules, Tested)

\* C16: a rule whose feature is absent from the row or not numeric is
\* skipped: the outcome is the one of the remaining rules alone, so such a
\* rule casts no vote and cannot make the evaluation fail, whatever its
\* operator and the shape of its threshold.
C16_AbsentFeatureSkipped ==
    /\ liveOut.done => liveOut = eval_rules_verbose(featureRow, [decisionCfg EXCEPT !.rules = TestedRules])
    /\ evalOut.done => evalOut = classify_row(featureRow, TestedRules, decisionCfg.fallback)

\* what holds of C16: in the evaluator's routine, and in the live routine for
\* the rules whose threshold has the shape their operator takes
WellShaped(r) == r.op \in {"<", "<=", ">", ">="} => r.value.t = "num"
C16_SkippedWhenWellShaped ==
    /\ evalOut.done => evalOut = classify_row(featureRow, TestedRules, decisionCfg.fallback)
    /\ (liveOut.done /\ \A i \in 1 .. Len(decisionCfg.rules) :
                           Skippable(featureRow, decisionCfg.rules[i]) => WellShaped(decisionCfg.rules[i]))
          => liveOut = eval_rules_verbose(featureRow, [decisionCfg EXCEPT !.rules = TestedRules])

\* C17: for one feature row and one decision config, live scoring and the
\* accuracy evaluator return the same label (and fail together).
C17_SameLabel ==
    (liveOut.done /\ evalOut.done) =>
        /\ liveOut.raised = evalOut.raised
        /\ liveOut.label = evalOut.label

\* what holds of C17: when both return, the labels are equal up to letter case
C17_SameLabelUpToCase ==
    (LiveReturned /\ EvalReturned) => Lower(liveOut.label) = evalOut.label

(***************************************************************************)
(* Properties of the threshold search                                      *)
(***************************************************************************)

\* IDX_KEYS of evaluator_autotune.py
IDX_KEYS == {"y_over_g", "r_over_g", "nir_over_red"}

SeqRange(s) == {s[i] : i \in DOMAIN s}

\* the candidate sets of the populations searched
YCands == HighCands(pull("y_over_g", freshRows), pull("y_over_g", badRows))
RCands == HighCands(pull("r_over_g", freshRows), pull("r_over_g", badRows))
NCands == LowCands(pull("nir_over_red", freshRows), pull("nir_over_red", badRows))
\* args.use_nir and n_cands
NirUsed == useNir /\ NCands # {}
NSearched == IF NirUsed THEN NCands ELSE {NoThr}

TuneDone == tuneOut.status # "none"
TuneReturned == tuneOut.status = "ok"

\* the counts of every combination of the Cartesian product
ProductScores ==
    { evaluate(freshRows, badRows, Thr(y, r, n, tuneOut.thr), NirUsed) :
        y \in YCands, r \in RCands, n \in NSearched }

\* the search counted every combination of the product, and what it returns
\* is one of them, of maximal accuracy and, among those, of minimal
\* false-positive count
BestOverProduct ==
    /\ tuneOut.combos = Cardinality(YCands) * Cardinality(RCands) * Cardinality(NSearched)
    /\ \E S \in ProductScores :
          /\ S.thr = tuneOut.thr
          /\ S.tp + S.tn = tuneOut.acc
          /\ S.fp = tuneOut.fp
    /\ \A S \in ProductScores :
          /\ S.tp + S.tn <= tuneOut.acc
          /\ S.tp + S.tn = tuneOut.acc => S.fp >= tuneOut.fp

\* the rows of a population in every order
Reorders(rows) == { [i \in 1 .. Len(rows) |-> rows[p[i]]] : p \in Perms(1 .. Len(rows)) }

\* what the search returns on populations whose candidates are enumerated in
\* rising order
SortedOutcome(fresh, bad) ==
    autotune_main(fresh, bad, useNir,
                  SortedSeq(HighCands(pull("y_over_g", fresh), pull("y_over_g", bad))),
                  SortedSeq(HighCands(pull("r_over_g", fresh), pull("r_over_g", bad))),
                  IF useNir
                  THEN SortedSeq(LowCands(pull("nir_over_red", fresh), pull("nir_over_red", bad)))
                  ELSE <<>>)

OrderFree ==
    \A f \in Reorders(freshRows), b \in Reorders(badRows) : tuneOut = SortedOutcome(f, b)

\* C18: the search visits every combination of the Cartesian product of the
\* candidate lists and returns one of maximal accuracy and, among those, of
\* minimal false-positive count; what it returns is the same for any order of
\* the input rows, the ties being resolved by the rising order of the
\* candidates.
C18_BestAndOrderFree == TuneReturned => (BestOverProduct /\ OrderFree)

\* what holds of C18: the returned combination is optimal over the product
C18_BestOverProduct == TuneReturned => BestOverProduct

\* a feature in use that one population has values of and the other has not:
\* the list build_candidates sorts then holds NaNs
OneSided(col) == (pull(col, freshRows) = <<>>) # (pull(col, badRows) = <<>>)
NoNaNSorted ==
    /\ ~OneSided("y_over_g")
    /\ ~OneSided("r_over_g")
    /\ useNir => ~OneSided("nir_over_red")

\* what holds of C18: the outcome is free of the row order when no candidate
\* list was sorted with NaNs in it
C18_OrderFreeWithoutNaN == (TuneReturned /\ NoNaNSorted) => OrderFree

\* a feature whose values are all equal within each population
Degenerate(col) ==
    /\ Cardinality(SeqRange(pull(col, freshRows))) <= 1
    /\ Cardinality(SeqRange(pull(col, badRows))) <= 1
ZeroVariance == \A col \in IDX_KEYS : Degenerate(col)

InsufficientData == tuneOut.status \in {"no data", "not enough variability"}

\* C19: when a population is empty, or every feature has zero variance in both
\* populations, the search reports insufficient data and returns no
\* threshold.
C19_InsufficientData ==
    (TuneDone /\ (freshRows = <<>> \/ badRows = <<>> \/ ZeroVariance)) => InsufficientData

\* what holds of C19: an empty population is reported
C19_EmptyPopulationReported ==
    (TuneDone /\ (freshRows = <<>> \/ badRows = <<>>)) => tuneOut.status = "no data"

\* the selected r_over_g threshold lies strictly between 0.7 and 1.5 and all
\* six rows are classified correctly
ToySeparated ==
    /\ TuneReturned
    /\ 70 * tuneOut.thr.dr < tuneOut.thr.r_over_g
    /\ tuneOut.thr.r_over_g < 150 * tuneOut.thr.dr
    /\ tuneOut.acc = 6
    /\ tuneOut.n = 6

\* C20: on the fresh population r_over_g = [1.5, 1.6, 1.7] and the bad
\* population r_over_g = [0.5, 0.6, 0.7] the search selects an r_over_g
\* threshold strictly between 0.7 and 1.5 that classifies all six rows
\* correctly.
C20_ToySeparated ==
    (TuneDone /\ freshRows = ToyFresh /\ badRows = ToyBad) => ToySeparated

\* what holds of C20: the same populations with a y_over_g column are separated
C20_ToySeparatedWithYellow ==
    (TuneDone /\ freshRows = ToyFreshY /\ badRows = ToyBadY) => ToySeparated

(***************************************************************************)
(* Properties of the stored documents                                      *)
(***************************************************************************)

ReadsOf(f) == {o \in reads : o.file = f}

\* C21: a process reading a calibration or profile document while it is
\* being written sees the whole previous document or the whole new one,
\* never an empty or partly written file.
C21_ReadsSeeWholeDocument == \A o \in reads : o.len = DocLen

\* what holds of C21: profiles.json, written to a temporary file and renamed
C21_ProfileReadsWhole == \A o \in ReadsOf(PROFILE_PATH) : o.len = DocLen

\* the documents a backup file holds
BackedUp(f) ==
    IF f = PROFILE_PATH /\ Whole(files[BAK_PATH]) THEN {files[BAK_PATH].ver} ELSE {}

\* C22: after any sequence of saves every overwritten version of a document,
\* the one present before the first save included, is still in a backup.
C22_OverwrittenRecoverable == \A o \in replaced : o.ver \in BackedUp(o.file)

\* what holds of C22: between saves, the version profiles.json had before its
\* last save is in profiles.bak
C22_LastProfileBackedUp ==
    \A o \in replaced :
        (savePc = "idle" /\ o.file = PROFILE_PATH /\ o.ver + 1 = files[PROFILE_PATH].ver) => o.ver \in BackedUp(o.file)

(***************************************************************************)
(* Properties of the channel math                                          *)
(***************************************************************************)

\* the reference of the row, a number
Reference == reading[CLEAR].v
HasReference == reading # <<>> /\ reading[CLEAR].t = "num"

\* out is val / ref to eight decimals
IsQuotient(out, val, ref) ==
    /\ 2 * (out * ref - val * OutUnit) <= ref
    /\ 2 * (val * OutUnit - out * ref) <= ref

\* with a reference > 0 every channel is divided by it
DividedByReference(cells) ==
    \A c \in NormChannels : IsQuotient(cells[c], CellValue(reading[c]), Reference)
\* with a reference <= 0 every other channel is 0
AllZero(cells) == \A c \in NormChannels : cells[c] = 0

\* C23: normalize never raises; with a reference > 0 every channel is divided
\* by it and the reference's own output is exactly 1.0; with a reference <= 0
\* every other channel's output is 0 and the reference is recorded as 1.0.
C23_Normalize ==
    /\ (normRow.done /\ HasReference) =>
          /\ normRow.cells[CLEAR] = OutUnit
          /\ IF Reference > 0 THEN DividedByReference(normRow.cells)
                              ELSE AllZero(normRow.cells)
    /\ (liveNorm.done /\ HasReference) =>
          IF Reference > 0 THEN DividedByReference(liveNorm.cells)
                           ELSE AllZero(liveNorm.cells)

\* what holds of C23 in _normalize_inline: the reference is recorded as 1.0
\* when it is > 0 and as 0 when it is not
C23_InlineNormalize ==
    (normRow.done /\ HasReference) =>
        IF Reference > 0
        THEN normRow.cells[CLEAR] = OutUnit /\ DividedByReference(normRow.cells)
        ELSE normRow.cells[CLEAR] = 0 /\ AllZero(normRow.cells)

\* what holds of C23 in as7341_norm.py: a reference > 0 divides
C23_LiveNormalize ==
    (liveNorm.done /\ HasReference /\ Reference > 0) => DividedByReference(liveNorm.cells)

(***************************************************************************)
(* Properties of the index computation                                     *)
(***************************************************************************)

IndexDone == indexRun.status # "none"
IndexedRow == indexRun.status = "written" /\ csvRows # <<>>
LastRow == csvRows[Len(csvRows)]

\* the readings of the bands the row was indexed with
Green  == GetFloat(LastRow, indexRun.cols.g, 0, 0)
Yellow == GetFloat(LastRow, indexRun.cols.y, 0, 0)
Red    == GetFloat(LastRow, indexRun.cols.r, 0, 0)
Nir    == GetFloat(LastRow, "NIR", 0, 0)
Clear  == GetFloat(LastRow, "CLEAR", 1, 1)

\* the ratio out is num / den
IsRatio(out, num, den) == out.n * den = num * out.d
\* out is num / max(den, eps) for an eps below one count: num / den when
\* den > 0, else 0 for num = 0 and more than num for num > 0
IsFlooredRatio(out, num, den) ==
    IF den > 0 THEN IsRatio(out, num, den)
    ELSE /\ num = 0 => out.n = 0
         /\ num > 0 => out.n > num * out.d

IndicesAsClaimed ==
    /\ IsFlooredRatio(indexRun.ratios.y_over_g, Yellow, Green)
    /\ IsFlooredRatio(indexRun.ratios.r_over_g, Red, Green)
    /\ IF Red > 0 THEN IsRatio(indexRun.ratios.nir_over_red, Nir, Red)
                  ELSE indexRun.ratios.nir_over_red.n = 0
    /\ IF Clear > 0 THEN IsRatio(indexRun.ratios.green_drop, Green, Clear)
                    ELSE indexRun.ratios.green_drop.n = 0

AllOnes == \A k \in DOMAIN indexRun.ratios : IsRatio(indexRun.ratios[k], 1, 1)

\* C24: the indices of a reading are y_over_g = yellow / green and
\* r_over_g = red / green with the green denominator floored to a small
\* positive epsilon, nir_over_red = NIR / red (0 if red <= 0) and
\* green_drop = green / CLEAR (0 if CLEAR <= 0), green = 0, red = 0 and
\* CLEAR = 0 included; ten channels of 1000 give four indices of 1.0.
C24_Indices ==
    IndexedRow => (IndicesAsClaimed /\ (LastRow = FlatRow => AllOnes))

\* what holds of C24: the indices of a reading whose green is > 0
C24_IndicesOfPositiveGreen ==
    (IndexedRow /\ Green > 0) => (IndicesAsClaimed /\ (LastRow = FlatRow => AllOnes))

Wavelengths == {"480", "555", "630"}
Proxies == {"F3", "F5", "F7"}

\* the band map is the wavelength columns when all three are there, else the
\* sensor columns
BandMapAsClaimed ==
    IF Wavelengths \subseteq csvHeader
    THEN indexRun.status = "written" /\ indexRun.cols = [g |-> "480", y |-> "555", r |-> "630"]
    ELSE IF Proxies \subseteq csvHeader
    THEN indexRun.status = "written" /\ indexRun.cols = [g |-> "F3", y |-> "F5", r |-> "F7"]
    ELSE indexRun.status = "exit 3"

Unresolvable == ~(Wavelengths \subseteq csvHeader) /\ ~(Proxies \subseteq csvHeader)

\* C25: green, yellow and red come from the columns 480, 555, 630 whenever
\* all three are present, otherwise from F3, F5, F7; when neither set is
\* complete the index computation fails and writes no index row.
C25_BandMap ==
    /\ (IndexDone /\ csvRows # <<>>) => BandMapAsClaimed
    /\ (IndexDone /\ Unresolvable) => indexRun.status = "exit 3"

\* what holds of C25: the band map of a CSV that has data rows
C25_BandMapOfRows == (IndexDone /\ csvRows # <<>>) => BandMapAsClaimed

(***************************************************************************)
(* Properties of the calibration                                           *)
(***************************************************************************)

\* (value + offset) * scale for the channels of the profile, the others unchanged
Calibrated(out) ==
    /\ DOMAIN out = DOMAIN calRow
    /\ \A c \in DOMAIN calRow :
          out[c] = IF c \in DOMAIN calCfg
                   THEN (calRow[c] + GetParam(calCfg[c], "offset", 0))
                            * GetParam(calCfg[c], "scale", 1)
                   ELSE calRow[c]

\* C26: each channel of the calibration profile becomes (value + offset) * scale
\* and every other channel is unchanged, in the Calibrate stage of the
\* pipeline as in the live index runner.
C26_Calibration ==
    /\ stageCal.done => Calibrated(stageCal.row)
    /\ liveCal.done => Calibrated(liveCal.row)

\* what holds of C26: the live index runner
C26_LiveCalibration == liveCal.done => Calibrated(liveCal.row)

\* what holds of C26 in the Calibrate stage: the channels absent from the
\* profile are unchanged, the others have the offset subtracted
C26_StageCalibration ==
    stageCal.done =>
        \A c \in DOMAIN calRow :
            stageCal.row[c] = IF c \in DOMAIN calCfg
                              THEN (calRow[c] - GetParam(calCfg[c], "offset", 0))
                                       * GetParam(calCfg[c], "scale", 1)
                              ELSE calRow[c]

(***************************************************************************)
(* Properties of the between operator                                      *)
(***************************************************************************)

\* the rule with the two bounds of its pair exchanged
SwapBounds(r) ==
    IF r.op = "between" /\ r.value.t = "pair"
    THEN [r EXCEPT !.value = Pair(r.value.hi, r.value.lo)]
    ELSE r
SwappedRules == [i \in 1 .. Len(decisionCfg.rules) |-> SwapBounds(decisionCfg.rules[i])]

\* a between rule over a pair, on a row that has its feature as a number
BetweenRule(r) == r.op = "between" /\ r.value.t = "pair" /\ Usable(featureRow, r)
Within(r) ==
    /\ Min(r.value.lo, r.value.hi) <= featureRow[r.index].v
    /\ featureRow[r.index].v <= Max(r.value.lo, r.value.hi)
\* the config is one between rule
OneBetween == Len(decisionCfg.rules) = 1 /\ BetweenRule(decisionCfg.rules[1])

\* C27: a between rule passes exactly when min(a, b) <= value <= max(a, b)
\* for its bound pair [a, b], so exchanging the two bounds never changes the
\* outcome, in the live scorer and in the accuracy evaluator.
C27_BetweenSortsBounds ==
    /\ liveOut.done =>
          /\ liveOut = eval_rules_verbose(featureRow, [decisionCfg EXCEPT !.rules = SwappedRules])
          /\ OneBetween => (liveOut.votes # <<>> <=> Within(decisionCfg.rules[1]))
    /\ evalOut.done =>
          /\ evalOut = classify_row(featureRow, SwappedRules, decisionCfg.fallback)
          /\ OneBetween => (EvalVotes(featureRow, decisionCfg.rules).votes # <<>>
                            <=> Within(decisionCfg.rules[1]))

\* a between rule given as [hi, lo] passed in both routines
C27_Witness ==
    /\ LiveReturned
    /\ EvalReturned
    /\ OneBetween
    /\ decisionCfg.rules[1].value.lo > decisionCfg.rules[1].value.hi
    /\ Within(decisionCfg.rules[1])
    /\ liveOut.votes = << decisionCfg.rules[1].vote >>

(***************************************************************************)
(* Properties of the override's evaluated conditions                       *)
(***************************************************************************)

\* a condition the loop can evaluate: a dictionary that lists an operator
Evaluable(e) == e.kind = "dict" /\ e.ops # <<>>

OverrideForced == OverrideActed /\ summary # Prior

\* C28: the override forces the label only if at least one condition was
\* evaluated against the index row and passed: a non-empty map whose entries
\* are all empty or not dictionaries leaves the prior result unchanged, and a
\* condition that lists several operators passes only if all of them pass.
C28_OverrideNeedsEvaluatedPass ==
    OverrideForced =>
        /\ \E i \in 1 .. Len(thresholds) : Evaluable(thresholds[i])
        /\ \A i \in 1 .. Len(thresholds) :
              Evaluable(thresholds[i]) => ConditionPasses(thresholds[i], idxRow)

\* what holds of C28: the first operator of every evaluable condition passed
C28_FirstOperatorsPass ==
    OverrideForced =>
        \A i \in 1 .. Len(thresholds) :
            Evaluable(thresholds[i]) =>
                /\ HasFeature(idxRow, thresholds[i].feat)
                /\ Satisfies(thresholds[i].ops[1].op,
                             FeatureValue(idxRow, thresholds[i].feat),
                             thresholds[i].ops[1].thr)


\* ---- the in-run autotune and the override map of the same run ----

\* the override map ResolveProfile chose, taken from the profiles in memory
ResolvedMap == profile.ripe_if

\* the summary the Override step leaves when it is given the resolved map
OverriddenWith(map) ==
    LET r == _apply_threshold_overrides(idx = "rows", idxRow, map, Prior)
    IN  IF r.raised THEN Prior ELSE r.summary

\* C29: thresholds the in-run Autotune step writes to the profile store do
\* not reach the Score or Override step of the same run: from Autotune on the
\* run holds the override map of the profile resolved at ResolveProfile, the
\* summary after Override is the scorer's summary overridden with that map,
\* and no outcome of Autotune (a raise included) fails the run: it goes on
\* to Score
C29_AutotuneDoesNotReachSameRun ==
    /\ InHist("Autotune") => thresholds = ResolvedMap
    /\ (InHist("Override") /\ pc # "Failed") => summary = OverriddenWith(ResolvedMap)
    /\ ~FailedIn("Autotune")
    /\ (hist # <<>> /\ Last(hist) = "Autotune") => pc = "Score"

\* a run whose Autotune wrote a different override map for its own fruit to
\* the store and which then went through Score and Override
C29_Witness ==
    /\ autotuneRes = "saved"
    /\ ResolveProfileFor(diskProfiles, fruitType).ripe_if # ResolvedMap
    /\ OverriddenWith(ResolveProfileFor(diskProfiles, fruitType).ripe_if) # summary
    /\ InHist("Override")
    /\ pc = "Done"

\* a run whose Autotune raised and which still reached Score
C29_RaisedThenScored ==
    autotuneRes = "raised" /\ InHist("Score")


\* ---- the push button ----

\* no callback is running and every evaluate thread has finished
ButtonQuiet ==
    /\ pressing.pc = "idle"
    /\ \A i \in 1 .. Len(evaluators) : evaluators[i].pc = "done"

\* the presses so far are one tap
SingleTap == Len(pressLog) = 1 /\ pressLog[1].kind = "tap"

\* the presses so far are two taps released within the double-tap window
DoubleTap ==
    /\ Len(pressLog) = 2
    /\ pressLog[1].kind = "tap"
    /\ pressLog[2].kind = "tap"
    /\ pressLog[2].gap < DOUBLE_TAP_WINDOW

\* C30: once the button is quiet again, two taps released within the
\* double-tap window have caused exactly one on_reset call and no on_scan
\* call, and a single tap has caused exactly one on_scan call (and no
\* on_reset), whatever the interleaving of _pressed and the evaluate threads
C30_TapsDispatch ==
    ButtonQuiet =>
      /\ DoubleTap => handled.reset = 1 /\ handled.scan = 0
      /\ SingleTap => handled.scan = 1 /\ handled.reset = 0

\* what holds: a single tap is always one on_scan call and no on_reset call
C30_SingleTapScans ==
    (ButtonQuiet /\ SingleTap) => handled.scan = 1 /\ handled.reset = 0

\* a double tap handled as claimed, which some interleavings do give
C30_DoubleTapResets ==
    ButtonQuiet /\ DoubleTap /\ handled.reset = 1 /\ handled.scan = 0

====
